---- MODULE Spec2Model ----
(***************************************************************************)
(* A model of the nexus-python keycode library (nexus_keycode.protocols).  *)
(* The library is a set of pure constructors and renderers; the state      *)
(* machine below is a caller that makes one call at a time, keeps the      *)
(* message object a constructor returned, and may render it.               *)
(*                                                                         *)
(* Representation of the Python values:                                    *)
(*   str                sequence of characters: a digit is 0..9, any other *)
(*                      character is its ASCII code                        *)
(*   bitstring.Bits     sequence of 0/1, most significant bit first        *)
(*   bytes              sequence of 0..255                                 *)
(*   64-bit hash value  <<l1, l2, l3, l4>>, 16-bit limbs, l1 the lowest    *)
(*   a call's outcome   [status |-> "ok", value |-> v] or                  *)
(*                      [status |-> <exception class name>]                *)
(*                                                                         *)
(* Python evaluates an expression once and names its value; Val does the   *)
(* same for the operators below, so that a value used twice is computed    *)
(* once.                                                                   *)
(***************************************************************************)
EXTENDS Integers, Sequences, FiniteSets, TLC

VARIABLES call, out, msg

vars == <<call, out, msg>>

Ok(v) == [status |-> "ok", value |-> v]
Raise(e) == [status |-> e]
IsOk(r) == r.status = "ok"

NoMsg == [cls |-> "none"]

\* the one element of a singleton set
Val(S) == CHOOSE r \in S : TRUE

(***************************************************************************)
(* Integer and bit helpers (Python int operators, bitstring.pack)          *)
(***************************************************************************)
Pow2(n) == CASE n = 0 -> 1 [] n = 1 -> 2 [] n = 2 -> 4 [] n = 3 -> 8 [] n = 4 -> 16
             [] n = 5 -> 32 [] n = 6 -> 64 [] n = 7 -> 128 [] n = 8 -> 256
             [] n = 9 -> 512 [] n = 10 -> 1024 [] n = 11 -> 2048 [] n = 12 -> 4096
             [] n = 13 -> 8192 [] n = 14 -> 16384 [] n = 15 -> 32768 [] n = 16 -> 65536

RECURSIVE XorN(_, _, _)
XorN(a, b, n) ==
    IF n = 0 THEN 0
    ELSE ((a + b) % 2) + 2 * XorN(a \div 2, b \div 2, n - 1)

XorTab == [a \in 0..15 |-> [b \in 0..15 |-> XorN(a, b, 4)]]

Xor16(a, b) ==
    XorTab[a % 16][b % 16]
    + 16 * XorTab[(a \div 16) % 16][(b \div 16) % 16]
    + 256 * XorTab[(a \div 256) % 16][(b \div 256) % 16]
    + 4096 * XorTab[a \div 4096][b \div 4096]

\* "uint:w" : v as w bits, most significant first
RECURSIVE UintBits(_, _)
UintBits(v, w) == IF w = 0 THEN <<>> ELSE UintBits(v \div 2, w - 1) \o <<v % 2>>

\* the number whose binary digits are b[1..n]
RECURSIVE BitsUintTo(_, _)
BitsUintTo(b, n) == IF n = 0 THEN 0 ELSE 2 * BitsUintTo(b, n - 1) + b[n]

\* Bits.uint
BitsUint(b) == Val({ BitsUintTo(a, Len(a)) : a \in {b} })

\* Bits.bytes of a whole number of bytes, from byte i on
RECURSIVE BitsBytesFrom(_, _)
BitsBytesFrom(b, i) ==
    IF 8 * i > Len(b) THEN <<>>
    ELSE <<BitsUintTo(SubSeq(b, 8 * i - 7, 8 * i), 8)>> \o BitsBytesFrom(b, i + 1)

\* the bits of bytes bs, from byte i on
RECURSIVE BytesBitsFrom(_, _)
BytesBitsFrom(bs, i) ==
    IF i > Len(bs) THEN <<>> ELSE UintBits(bs[i], 8) \o BytesBitsFrom(bs, i + 1)

BytesBits(bs) == Val({ BytesBitsFrom(a, 1) : a \in {bs} })

\* "uintle:16", "uintle:32" as bytes; v is within range
Uintle16(v) == <<v % 256, (v \div 256) % 256>>
Uintle32(v) == <<v % 256, (v \div 256) % 256, (v \div 65536) % 256, (v \div 16777216) % 256>>

RECURSIVE Zeros(_)
Zeros(n) == IF n <= 0 THEN <<>> ELSE <<0>> \o Zeros(n - 1)

\* a ^ b of two bitstrings of one length, from bit i on
RECURSIVE XorBitsFrom(_, _, _)
XorBitsFrom(a, b, i) ==
    IF i > Len(a) THEN <<>> ELSE <<(a[i] + b[i]) % 2>> \o XorBitsFrom(a, b, i + 1)

(***************************************************************************)
(* siphash.SipHash_2_4 (the siphash package): SipHash-2-4 of a byte        *)
(* message under a 16-byte key.  The package unpacks the key with          *)
(* struct '<QQ', so a key of any other length raises struct.error.         *)
(***************************************************************************)
Xor64(x, y) ==
    Val({ <<Xor16(a[1], b[1]), Xor16(a[2], b[2]), Xor16(a[3], b[3]), Xor16(a[4], b[4])>> :
            a \in {x}, b \in {y} })

Add64(x, y) ==
    Val({ LET s1 == a[1] + b[1]
              s2 == a[2] + b[2] + s1 \div 65536
              s3 == a[3] + b[3] + s2 \div 65536
              s4 == a[4] + b[4] + s3 \div 65536
          IN <<s1 % 65536, s2 % 65536, s3 % 65536, s4 % 65536>> : a \in {x}, b \in {y} })

Rotl64(x, b) ==
    Val({ LET q == b \div 16
              r == b % 16
              limb(i) == a[((i - 1 - q + 8) % 4) + 1]
              prev(i) == a[((i - 2 - q + 8) % 4) + 1]
              o(i) == (limb(i) % Pow2(16 - r)) * Pow2(r) + prev(i) \div Pow2(16 - r)
          IN <<o(1), o(2), o(3), o(4)>> : a \in {x} })

\* v0 += v1; v1 = rotl(v1, 13) ^ v0; v2 += v3; v3 = rotl(v3, 16) ^ v2
SipHalfRound1(v) ==
    LET a0 == Add64(v[1], v[2])
        a2 == Add64(v[3], v[4])
    IN <<a0, Xor64(Rotl64(v[2], 13), a0), a2, Xor64(Rotl64(v[4], 16), a2)>>

\* v0 = rotl(v0, 32) + v3; v3 = rotl(v3, 21) ^ v0; v2 += v1;
\* v1 = rotl(v1, 17) ^ v2; v2 = rotl(v2, 32)
SipHalfRound2(w) ==
    LET c0 == Add64(Rotl64(w[1], 32), w[4])
        c2 == Add64(w[3], w[2])
    IN <<c0, Xor64(Rotl64(w[2], 17), c2), Rotl64(c2, 32), Xor64(Rotl64(w[4], 21), c0)>>

SipRound(v) == Val({ SipHalfRound2(w) : w \in { SipHalfRound1(u) : u \in {v} } })

\* n rounds
RECURSIVE SipRounds(_, _)
SipRounds(v, n) ==
    IF n = 0 THEN v ELSE Val({ SipRounds(w, n - 1) : w \in { SipRound(v) } })

\* eight bytes, little-endian, as a 64-bit word
SipWord(bs) ==
    <<bs[1] + 256 * bs[2], bs[3] + 256 * bs[4], bs[5] + 256 * bs[6], bs[7] + 256 * bs[8]>>

\* v3 ^= m; two rounds; v0 ^= m
SipCompress(v, m) ==
    Val({ <<Xor64(w[1], b), w[2], w[3], w[4]>> :
            w \in { SipRounds(<<u[1], u[2], u[3], Xor64(u[4], c)>>, 2) :
                      u \in {v}, c \in {m} },
            b \in {m} })

\* the blocks of m from byte i on, the last one closed by the length byte
RECURSIVE SipBlocks(_, _, _)
SipBlocks(v, m, i) ==
    Val({ IF Len(m) - i + 1 >= 8 THEN SipBlocks(w, m, i + 8) ELSE w :
            w \in { SipCompress(v, SipWord(
                        IF Len(m) - i + 1 >= 8
                        THEN SubSeq(m, i, i + 7)
                        ELSE SubSeq(m, i, Len(m)) \o Zeros(7 - (Len(m) - i + 1))
                             \o <<Len(m) % 256>>)) } })

\* .hash() of SipHash_2_4(key, m); the key has 16 bytes
SipHash_2_4(key, m) ==
    Val({ Xor64(Xor64(w[1], w[2]), Xor64(w[3], w[4])) :
            w \in { SipRounds(<<u[1], u[2], Xor64(u[3], <<255, 0, 0, 0>>), u[4]>>, 4) :
                      u \in { SipBlocks(<<Xor64(k0, <<25973, 28787, 28005, 29551>>),
                                          Xor64(k1, <<28525, 28260, 29281, 25711>>),
                                          Xor64(k0, <<29281, 28261, 26469, 27769>>),
                                          Xor64(k1, <<25971, 31092, 25698, 29797>>)>>, b, 1) :
                                k0 \in { SipWord(SubSeq(key, 1, 8)) },
                                k1 \in { SipWord(SubSeq(key, 9, 16)) },
                                b \in {m} } } })

\* the constructor raises struct.error unless the key has exactly 16 bytes
SipKeyOk(key) == Len(key) = 16

\* hash >> 52 : the 12 most significant bits
HashTop12(h) == h[4] \div 16

\* (hash & 0xFFFFFFFF) % 10^6, limb-wise to stay within 32-bit integers
HashLow32Mod1e6(h) ==
    Val({ (a[1] + 65536 * (a[2] % 256) + 777216 * (a[2] \div 256)) % 1000000 : a \in {h} })

\* bitstring.pack("uintle:64", hash) as bits
HashUintle64Bits(h) ==
    Val({ BytesBits(bs) :
            bs \in { <<a[1] % 256, a[1] \div 256, a[2] % 256, a[2] \div 256,
                       a[3] % 256, a[3] \div 256, a[4] % 256, a[4] \div 256>> : a \in {h} } })

(***************************************************************************)
(* String formatting                                                       *)
(***************************************************************************)
\* the characters that are no digits, by their ASCII codes: '-', '*', '#', ' '
Minus == 45
Star == 42
Hash == 35
Space == 32

IsDigits(s) == \A i \in 1..Len(s) : s[i] \in 0..9

RECURSIVE DecDigits(_)
DecDigits(n) == IF n < 10 THEN <<n>> ELSE DecDigits(n \div 10) \o <<n % 10>>

\* "{:0wd}".format(n): at least w characters, the sign included, never truncated
FormatD(n, w) ==
    Val({ IF a >= 0
          THEN Val({ Zeros(w - Len(d)) \o d : d \in { DecDigits(a) } })
          ELSE Val({ <<Minus>> \o Zeros(w - 1 - Len(d)) \o d : d \in { DecDigits(-a) } }) :
            a \in {n} })

\* int(s[1..n]) for digits s
RECURSIVE DigitsIntTo(_, _)
DigitsIntTo(s, n) == IF n = 0 THEN 0 ELSE 10 * DigitsIntTo(s, n - 1) + s[n]

\* int(s) for a non-empty string of digits with an optional sign
DigitsInt(s) ==
    Val({ IF a[1] = Minus THEN -DigitsIntTo(Tail(a), Len(a) - 1) ELSE DigitsIntTo(a, Len(a)) :
            a \in {s} })

\* separator.join(s[i * group_len : (i + 1) * group_len] for i in range(ceil(len(s) / group_len))),
\* from character i on
RECURSIVE JoinGroups(_, _, _, _)
JoinGroups(s, i, group_len, separator) ==
    IF i > Len(s) THEN <<>>
    ELSE (IF i > 1 /\ (i - 1) % group_len = 0 THEN separator ELSE <<>>)
         \o <<s[i]>> \o JoinGroups(s, i + 1, group_len, separator)

\* s[-n:]
LastN(s, n) == Val({ IF Len(a) <= n THEN a ELSE SubSeq(a, Len(a) - n + 1, Len(a)) : a \in {s} })

(***************************************************************************)
(* nexus_keycode/protocols/utils.py                                        *)
(***************************************************************************)
fixed_key == <<0, 0, 0, 0, 0, 0, 0, 0, 0, 0, 0, 0, 0, 0, 0, 0>>

\* int_to_bytes(int): bytes([int]) raises ValueError outside 0..255
int_to_bytes_ok(i) == i >= 0 /\ i <= 255

\* chunk(iteration) of pseudorandom_bits
prng_chunk(seed, iteration) ==
    HashUintle64Bits(SipHash_2_4(fixed_key, <<iteration>> \o seed))

RECURSIVE prng_join(_, _, _)
prng_join(seed, i, n) ==
    IF i >= n THEN <<>> ELSE prng_chunk(seed, i) \o prng_join(seed, i + 1, n)

\* the number of chunks the code joins: int(math.ceil(output_len / 64.0) * 64)
prng_iterations(output_len) == ((output_len + 63) \div 64) * 64

\* pseudorandom_bits(seed_bits, output_len).  The code joins chunk(0) ..
\* chunk(iterations - 1) and slices the first output_len bits; the slice only
\* reads chunks 0 .. ceil(output_len / 64) - 1, the rest only matter because
\* chunk(i) raises for i > 255.
pseudorandom_bits(seed_bits, output_len) ==
    IF \E i \in 0..(prng_iterations(output_len) - 1) : ~int_to_bytes_ok(i)
    THEN Raise("ValueError")
    ELSE Ok(Val({ SubSeq(joined, 1, output_len) :
                    joined \in { prng_join(seed, 0, (output_len + 63) \div 64) :
                                   seed \in { BitsBytesFrom(padded, 1) :
                                       padded \in { Zeros(((Len(s) + 7) \div 8) * 8 - Len(s)) \o s :
                                                      s \in {seed_bits} } } } }))

\* the loop of full_obscure whose pseudorandom value ignores the sign
RECURSIVE perturb_unsigned(_, _, _, _, _)
perturb_unsigned(perturbed, pr_bits, sign, i, obscured_digit_count) ==
    IF i > Len(perturbed) THEN <<>>
    ELSE <<IF i > obscured_digit_count THEN perturbed[i]
           ELSE (perturbed[i] + BitsUintTo(SubSeq(pr_bits, (i - 1) * 8 + 1, (i - 1) * 8 + 8), 8))
                  % 10>>
         \o perturb_unsigned(perturbed, pr_bits, sign, i + 1, obscured_digit_count)

\* the loop of full_obscure run over eight digits whatever obscured_digit_count is
RECURSIVE perturb_eight(_, _, _, _, _)
perturb_eight(perturbed, pr_bits, sign, i, obscured_digit_count) ==
    IF i > Len(perturbed) THEN <<>>
    ELSE <<IF i > 8 THEN perturbed[i]
           ELSE (perturbed[i]
                   + BitsUintTo(SubSeq(pr_bits, (i - 1) * 8 + 1, (i - 1) * 8 + 8), 8) * sign)
                  % 10>>
         \o perturb_eight(perturbed, pr_bits, sign, i + 1, obscured_digit_count)

\* the loop of full_obscure: digit i (from 1) of the first obscured_digit_count
\* digits gets pr_bits[(i-1)*8 : (i-1)*8 + 8].uint * sign added, modulo 10
RECURSIVE perturb(_, _, _, _, _)
perturb(perturbed, pr_bits, sign, i, obscured_digit_count) ==
    IF i > Len(perturbed) THEN <<>>
    ELSE <<IF i > obscured_digit_count THEN perturbed[i]
           ELSE (perturbed[i]
                   + BitsUintTo(SubSeq(pr_bits, (i - 1) * 8 + 1, (i - 1) * 8 + 8), 8) * sign)
                  % 10>>
         \o perturb(perturbed, pr_bits, sign, i + 1, obscured_digit_count)

\* full_obscure(digits, sign, obscured_digit_count); an empty slice of pr_bits
\* has no .uint (bitstring.InterpretError)
full_obscure(digits, sign, obscured_digit_count) ==
    Val({ IF ~IsDigits(d) THEN Raise("ValueError")
          ELSE IF Len(d) < 6 \/ Len(d) # obscured_digit_count + 6
          THEN Raise("AssertionError")
          ELSE IF obscured_digit_count > 8 THEN Raise("InterpretError")
          ELSE Ok(Val({ perturb(d, pr_bits, sign, 1, obscured_digit_count) :
                          pr_bits \in { pseudorandom_bits(
                              BytesBits(Uintle32(DigitsInt(LastN(d, 6)))), 64).value } })) :
            d \in {digits} })

\* full_deobscure that adds the pseudorandom values as full_obscure does
full_deobscure_same_sign(digits, obscured_digit_count) ==
    full_obscure(digits, 1, obscured_digit_count)

\* full_deobscure(digits, obscured_digit_count)
full_deobscure(digits, obscured_digit_count) ==
    full_obscure(digits, -1, obscured_digit_count)

\* generate_mac(input_val, secret_key)
generate_mac(input_val, secret_key) ==
    IF ~SipKeyOk(secret_key) THEN Raise("struct.error")
    ELSE Ok(FormatD(HashLow32Mod1e6(SipHash_2_4(secret_key, input_val)), 6))

(***************************************************************************)
(* nexus_keycode/protocols/full.py                                         *)
(***************************************************************************)
NEXUS_INTEGRITY_CHECK_FIXED_00_KEY == <<0, 0, 0, 0, 0, 0, 0, 0, 0, 0, 0, 0, 0, 0, 0, 0>>

FullMessageType ==
    [ADD_CREDIT |-> 0, SET_CREDIT |-> 1, WIPE_STATE |-> 2, RESERVED_TYPE_ID_3 |-> 3,
     FACTORY_ALLOW_TEST |-> 4, FACTORY_OQC_TEST |-> 5, FACTORY_DISPLAY_PAYG_ID |-> 6,
     RESERVED_TYPE_ID_7 |-> 7, PASSTHROUGH_COMMAND |-> 8]

UNLOCK_FLAG_IN_HOURS == 99999

\* bitstring.pack "uintle:32" takes 0 .. 2^32 - 1 (the model's integers end
\* below 2^31, so only the sign can be wrong)
FitsU32(v) == v >= 0

\* BaseFullMessage._generate_mac on the fields __init__ has set
BaseFullMessage_generate_mac(secret_key, full_id, message_type, body_int) ==
    IF ~SipKeyOk(secret_key) THEN Raise("struct.error")
    ELSE IF ~FitsU32(full_id) \/ ~FitsU32(body_int) THEN Raise("CreationError")
    ELSE Ok(FormatD(HashLow32Mod1e6(SipHash_2_4(secret_key,
                Uintle32(full_id) \o <<message_type>> \o Uintle32(body_int))), 6))

\* secret_key[:16]
First16(secret_key) ==
    SubSeq(secret_key, 1, IF Len(secret_key) < 16 THEN Len(secret_key) ELSE 16)

\* BaseFullMessage.__init__; the object is a record of its attributes
\* (body_int, which only _generate_mac reads, is left out), with mac = <<>>
\* for the None of a passthrough message
BaseFullMessage(full_id, message_type, body, secret_key, is_factory) ==
    IF message_type \notin 0..8 THEN Raise("ValueError")
    ELSE IF body # <<>> /\ ~IsDigits(IF body[1] = Minus THEN Tail(body) ELSE body)
    THEN Raise("ValueError")
    ELSE IF (is_factory /\ full_id # 0) \/ (~is_factory /\ Len(body) = 0)
    THEN Raise("AssertionError")
    ELSE Val({ IF ~IsOk(mac) THEN mac
               ELSE Ok([cls |-> "FullMessage",
                        secret_key |-> First16(secret_key),
                        is_factory |-> is_factory,
                        full_id |-> full_id,
                        message_type |-> message_type,
                        body |-> body,
                        header |-> IF is_factory THEN FormatD(message_type, 1)
                                   ELSE FormatD(message_type, 1) \o FormatD(full_id % 64, 2),
                        mac |-> mac.value]) :
                 mac \in { IF message_type = FullMessageType.PASSTHROUGH_COMMAND
                           THEN Ok(<<>>)
                           ELSE BaseFullMessage_generate_mac(
                                    First16(secret_key), full_id, message_type,
                                    IF body = <<>> THEN 0 ELSE DigitsInt(body)) } })

\* to_keycode that puts the prefix before the digits and then splits into
\* groups, as SmallMessage.to_keycode does
BaseFullMessage_to_keycode_prefix_grouped(m, prefix, suffix, separator, group_len, obscured) ==
    Val({ IF obscured = "True" \/ (obscured # "False" /\ ~m.is_factory)
          THEN IF Len(keycode) # 14 THEN Raise("AssertionError")
               ELSE Val({ IF IsOk(o)
                          THEN Ok(JoinGroups(prefix \o o.value, 1, group_len, separator)
                                  \o suffix)
                          ELSE o : o \in { full_obscure(keycode, 1, 8) } })
          ELSE Ok(JoinGroups(prefix \o keycode, 1, group_len, separator) \o suffix) :
            keycode \in { m.header \o m.body \o m.mac } })

\* to_keycode that obscures a factory message too when obscured is unset
BaseFullMessage_to_keycode_factory_obscured(m, prefix, suffix, separator, group_len, obscured) ==
    Val({ IF obscured # "False"
          THEN IF Len(keycode) # 14 THEN Raise("AssertionError")
               ELSE Val({ IF IsOk(o)
                          THEN Ok(prefix \o JoinGroups(o.value, 1, group_len, separator) \o suffix)
                          ELSE o : o \in { full_obscure(keycode, 1, 8) } })
          ELSE Ok(prefix \o JoinGroups(keycode, 1, group_len, separator) \o suffix) :
            keycode \in { m.header \o m.body \o m.mac } })

\* BaseFullMessage.to_keycode(prefix, suffix, separator, group_len, obscured);
\* obscured is "None", "True" or "False"
BaseFullMessage_to_keycode(m, prefix, suffix, separator, group_len, obscured) ==
    Val({ IF obscured = "True" \/ (obscured # "False" /\ ~m.is_factory)
          THEN IF Len(keycode) # 14 THEN Raise("AssertionError")
               ELSE Val({ IF IsOk(o)
                          THEN Ok(prefix \o JoinGroups(o.value, 1, group_len, separator) \o suffix)
                          ELSE o : o \in { full_obscure(keycode, 1, 8) } })
          ELSE Ok(prefix \o JoinGroups(keycode, 1, group_len, separator) \o suffix) :
            keycode \in { m.header \o m.body \o m.mac } })

\* FullMessage.add_credit(id_, hours, secret_key)
FullMessage_add_credit(id_, hours, secret_key) ==
    BaseFullMessage(id_, FullMessageType.ADD_CREDIT, FormatD(hours, 5), secret_key, FALSE)

\* FullMessage.set_credit(id_, hours, secret_key)
FullMessage_set_credit(id_, hours, secret_key) ==
    BaseFullMessage(id_, FullMessageType.SET_CREDIT, FormatD(hours, 5), secret_key, FALSE)

\* FullMessage.unlock(id_, secret_key)
FullMessage_unlock(id_, secret_key) ==
    BaseFullMessage(id_, FullMessageType.SET_CREDIT, FormatD(UNLOCK_FLAG_IN_HOURS, 5),
                    secret_key, FALSE)

\* FullMessage.wipe_state(id_, flags, secret_key); flags is the value of a
\* FullMessageWipeFlags member, or a number that is none
FullMessage_wipe_state(id_, flags, secret_key) ==
    IF flags \notin 0..3 THEN Raise("ValueError")
    ELSE BaseFullMessage(id_, FullMessageType.WIPE_STATE, FormatD(0, 1) \o FormatD(flags, 4),
                         secret_key, FALSE)

\* FullMessageType.build(self, **kwargs): the constructors dictionary is built
\* first, and its keys are looked up by name among the members of the class
FullMessageType_build(self, kwargs) ==
    IF { "ADD_CREDIT", "SET_CREDIT", "WIPE_STATE", "RESERVED" } \ DOMAIN FullMessageType # {}
    THEN Raise("AttributeError")
    ELSE CASE self = "ADD_CREDIT" ->
                  FullMessage_add_credit(kwargs.id_, kwargs.hours, kwargs.secret_key)
           [] self = "SET_CREDIT" ->
                  FullMessage_set_credit(kwargs.id_, kwargs.hours, kwargs.secret_key)
           [] self = "WIPE_STATE" ->
                  FullMessage_wipe_state(kwargs.id_, kwargs.flags, kwargs.secret_key)
           [] OTHER -> Raise("KeyError")

\* FactoryFullMessage.__init__(message_type, body)
FactoryFullMessage(message_type, body) ==
    BaseFullMessage(0, message_type, body, NEXUS_INTEGRITY_CHECK_FIXED_00_KEY, TRUE)

\* FactoryFullMessage.allow_test()
FactoryFullMessage_allow_test == FactoryFullMessage(FullMessageType.FACTORY_ALLOW_TEST, <<>>)

\* FactoryFullMessage.oqc_test(num_min)
FactoryFullMessage_oqc_test(num_min) ==
    IF num_min < 1 \/ 99 < num_min THEN Raise("ValueError")
    ELSE FactoryFullMessage(FullMessageType.FACTORY_OQC_TEST, <<0, 0, 0>> \o FormatD(num_min, 2))

\* FactoryFullMessage.display_payg_id()
FactoryFullMessage_display_payg_id ==
    FactoryFullMessage(FullMessageType.FACTORY_DISPLAY_PAYG_ID, <<>>)

\* passthrough_command that forbids 14 body digits instead of 13
passthrough_command_14(application_id, passthrough_digits) ==
    IF application_id \notin {0, 1} THEN Raise("TypeError")
    ELSE IF Len(FormatD(application_id, 1) \o passthrough_digits) = 14 THEN Raise("ValueError")
    ELSE FactoryFullMessage(FullMessageType.PASSTHROUGH_COMMAND,
                            FormatD(application_id, 1) \o passthrough_digits)

\* FactoryFullMessage.passthrough_command(application_id, passthrough_digits);
\* application_id is the value of a PassthroughApplicationId member (0, 1), or
\* a number that is none
FactoryFullMessage_passthrough_command(application_id, passthrough_digits) ==
    IF application_id \notin {0, 1} THEN Raise("TypeError")
    ELSE IF Len(FormatD(application_id, 1) \o passthrough_digits) = 13 THEN Raise("ValueError")
    ELSE FactoryFullMessage(FullMessageType.PASSTHROUGH_COMMAND,
                            FormatD(application_id, 1) \o passthrough_digits)

(***************************************************************************)
(* nexus_keycode/protocols/small.py                                        *)
(*   days is [int |-> n] for a Python int n, UNLOCK_FLAG for the sentinel  *)
(*   object, or another record for a value of any other type               *)
(***************************************************************************)
SmallMessageType == [ADD_CREDIT |-> 0, PASSTHROUGH |-> 1, SET_CREDIT |-> 2, MAINTENANCE_TEST |-> 3]

UNLOCK_FLAG == [obj |-> "UNLOCK_FLAG"]

mac_len == 12

\* SmallMessage.obscure(msg_bits)
SmallMessage_obscure(msg_bits) ==
    Val({ XorBitsFrom(SubSeq(b, 1, Len(b) - mac_len), prng_bits, 1) \o LastN(b, mac_len) :
            prng_bits \in { pseudorandom_bits(LastN(msg_bits, mac_len),
                                              Len(msg_bits) - mac_len).value },
            b \in {msg_bits} })

\* SmallMessage.deobscure(msg_bits)
SmallMessage_deobscure(msg_bits) == SmallMessage_obscure(msg_bits)

\* SmallMessage._generate_mac_bits(secret_key) on the fields __init__ has set
SmallMessage_generate_mac_bits(id_, message_type, body, secret_key) ==
    IF body < 0 \/ body > 255 THEN Raise("ValueError")
    ELSE IF ~SipKeyOk(secret_key) THEN Raise("struct.error")
    ELSE Ok(UintBits(HashTop12(SipHash_2_4(secret_key,
                Uintle32(id_) \o <<message_type, body>>)), 12))

\* SmallMessage.__init__ that packs the body before the message type
SmallMessage_type_after_body(id_, message_type, body, secret_key) ==
    IF id_ < 0 THEN Raise("ValueError")
    ELSE IF message_type \notin 0..3 THEN Raise("ValueError")
    ELSE IF message_type = SmallMessageType.PASSTHROUGH THEN Raise("AssertionError")
    ELSE Val({ IF ~IsOk(mac_bits) THEN mac_bits
               ELSE Ok([cls |-> "SmallMessage",
                        id_ |-> id_,
                        message_type |-> message_type,
                        body |-> body,
                        compressed_message_bits |->
                            UintBits(id_ % 64, 6) \o UintBits(body, 8)
                            \o UintBits(message_type, 2) \o mac_bits.value]) :
                 mac_bits \in { SmallMessage_generate_mac_bits(
                                    id_, message_type, body, First16(secret_key)) } })

\* SmallMessage.__init__ of a message that is no passthrough message
SmallMessage(id_, message_type, body, secret_key) ==
    IF id_ < 0 THEN Raise("ValueError")
    ELSE IF message_type \notin 0..3 THEN Raise("ValueError")
    ELSE IF message_type = SmallMessageType.PASSTHROUGH THEN Raise("AssertionError")
    ELSE Val({ IF ~IsOk(mac_bits) THEN mac_bits
               ELSE Ok([cls |-> "SmallMessage",
                        id_ |-> id_,
                        message_type |-> message_type,
                        body |-> body,
                        compressed_message_bits |->
                            UintBits(id_ % 64, 6) \o UintBits(message_type, 2)
                            \o UintBits(body, 8) \o mac_bits.value]) :
                 mac_bits \in { SmallMessage_generate_mac_bits(
                                    id_, message_type, body, First16(secret_key)) } })

\* bits_to_digits that reads each pair of bits lowest bit first
RECURSIVE bits_to_digits_low_first(_, _)
bits_to_digits_low_first(bits, i) ==
    IF i > Len(bits) THEN <<>>
    ELSE <<bits[i] + 2 * bits[i + 1]>> \o bits_to_digits_low_first(bits, i + 2)

\* SmallMessage._bits_to_digits(bits), from bit i on
RECURSIVE bits_to_digits(_, _)
bits_to_digits(bits, i) ==
    IF i > Len(bits) THEN <<>> ELSE <<2 * bits[i] + bits[i + 1]>> \o bits_to_digits(bits, i + 2)

\* the key_dict to_keycode uses when none is given
DefaultKeyDict == [k \in 0..3 |-> k + 2]

\* the keycode characters of the digits from digit i on
RECURSIVE MapKeys(_, _, _)
MapKeys(digits, key_dict, i) ==
    IF i > Len(digits) THEN <<>>
    ELSE <<key_dict[digits[i]]>> \o MapKeys(digits, key_dict, i + 1)

\* SmallMessage.to_keycode(prefix, separator, group_len, key_dict, obscured)
SmallMessage_to_keycode(m, prefix, separator, group_len, key_dict, obscured) ==
    IF Len(prefix) < 1 THEN Raise("ValueError")
    ELSE IF \E key \in 0..3 : key \notin DOMAIN key_dict THEN Raise("KeyError")
    ELSE Ok(Val({ JoinGroups(keycode, 1, group_len, separator) :
                    keycode \in { prefix \o MapKeys(digits, key_dict, 1) :
                        digits \in { bits_to_digits(output_message_bits, 1) :
                            output_message_bits \in {
                                IF obscured THEN SmallMessage_obscure(m.compressed_message_bits)
                                ELSE m.compressed_message_bits } } } }))

\* generate_body that takes 406 days for the largest increment
AddCredit_generate_body_406(days) ==
    IF "int" \in DOMAIN days
    THEN IF 1 <= days.int /\ days.int <= 180 THEN Ok(days.int - 1)
         ELSE IF 181 <= days.int /\ days.int <= 406 THEN Ok(((days.int - 181) \div 3) + 180)
         ELSE Raise("ValueError")
    ELSE IF days = UNLOCK_FLAG THEN Ok(255)
    ELSE Raise("ValueError")

\* AddCreditSmallMessage.generate_body(days)
AddCreditSmallMessage_generate_body(days) ==
    IF "int" \in DOMAIN days
    THEN IF 1 <= days.int /\ days.int <= 180 THEN Ok(days.int - 1)
         ELSE IF 181 <= days.int /\ days.int <= 405 THEN Ok(((days.int - 181) \div 3) + 180)
         ELSE Raise("ValueError")
    ELSE IF days = UNLOCK_FLAG THEN Ok(255)
    ELSE Raise("ValueError")

\* AddCreditSmallMessage.__init__(id_, days, secret_key)
AddCreditSmallMessage(id_, days, secret_key) ==
    IF ~IsOk(AddCreditSmallMessage_generate_body(days))
    THEN AddCreditSmallMessage_generate_body(days)
    ELSE SmallMessage(id_, SmallMessageType.ADD_CREDIT,
                      AddCreditSmallMessage_generate_body(days).value, secret_key)

\* UnlockSmallMessage.__init__(id_, secret_key)
UnlockSmallMessage(id_, secret_key) ==
    SmallMessage(id_, SmallMessageType.ADD_CREDIT,
                 AddCreditSmallMessage_generate_body(UNLOCK_FLAG).value, secret_key)

\* generate_body whose last range has steps of 8 days, as the range before it
SetCredit_generate_body_step8(days) ==
    IF "int" \in DOMAIN days
    THEN IF 1 <= days.int /\ days.int <= 90 THEN Ok(days.int - 1)
         ELSE IF 91 <= days.int /\ days.int <= 180 THEN Ok((days.int - 91) \div 2 + 90)
         ELSE IF 181 <= days.int /\ days.int <= 360 THEN Ok((days.int - 181) \div 4 + 135)
         ELSE IF 361 <= days.int /\ days.int <= 720 THEN Ok((days.int - 361) \div 8 + 180)
         ELSE IF 721 <= days.int /\ days.int <= 960 THEN Ok((days.int - 721) \div 8 + 225)
         ELSE IF days.int = 0 THEN Ok(254)
         ELSE Raise("ValueError")
    ELSE IF days = UNLOCK_FLAG THEN Ok(255)
    ELSE Raise("ValueError")

\* generate_body whose last range starts one increment later
SetCredit_generate_body_last_range_226(days) ==
    IF "int" \in DOMAIN days
    THEN IF 1 <= days.int /\ days.int <= 90 THEN Ok(days.int - 1)
         ELSE IF 91 <= days.int /\ days.int <= 180 THEN Ok((days.int - 91) \div 2 + 90)
         ELSE IF 181 <= days.int /\ days.int <= 360 THEN Ok((days.int - 181) \div 4 + 135)
         ELSE IF 361 <= days.int /\ days.int <= 720 THEN Ok((days.int - 361) \div 8 + 180)
         ELSE IF 721 <= days.int /\ days.int <= 960 THEN Ok((days.int - 721) \div 16 + 226)
         ELSE IF days.int = 0 THEN Ok(254)
         ELSE Raise("ValueError")
    ELSE IF days = UNLOCK_FLAG THEN Ok(255)
    ELSE Raise("ValueError")

\* SetCreditSmallMessage.generate_body(days)
SetCreditSmallMessage_generate_body(days) ==
    IF "int" \in DOMAIN days
    THEN IF 1 <= days.int /\ days.int <= 90 THEN Ok(days.int - 1)
         ELSE IF 91 <= days.int /\ days.int <= 180 THEN Ok((days.int - 91) \div 2 + 90)
         ELSE IF 181 <= days.int /\ days.int <= 360 THEN Ok((days.int - 181) \div 4 + 135)
         ELSE IF 361 <= days.int /\ days.int <= 720 THEN Ok((days.int - 361) \div 8 + 180)
         ELSE IF 721 <= days.int /\ days.int <= 960 THEN Ok((days.int - 721) \div 16 + 225)
         ELSE IF days.int = 0 THEN Ok(254)
         ELSE Raise("ValueError")
    ELSE IF days = UNLOCK_FLAG THEN Ok(255)
    ELSE Raise("ValueError")

\* SetCreditSmallMessage.__init__ that tests the collision on the whole id
SetCreditSmallMessage_whole_id(id_, days, secret_key) ==
    IF id_ = 63 /\ days = [int |-> 1] THEN Raise("PossibleMessageCollisionError")
    ELSE IF ~IsOk(SetCreditSmallMessage_generate_body(days))
    THEN SetCreditSmallMessage_generate_body(days)
    ELSE SmallMessage(id_, SmallMessageType.SET_CREDIT,
                      SetCreditSmallMessage_generate_body(days).value, secret_key)

\* SetCreditSmallMessage that raises a plain ValueError for a colliding message
SetCreditSmallMessage_value_error(id_, days, secret_key) ==
    IF id_ % 64 = 63 /\ days = [int |-> 1] THEN Raise("ValueError")
    ELSE IF ~IsOk(SetCreditSmallMessage_generate_body(days))
    THEN SetCreditSmallMessage_generate_body(days)
    ELSE SmallMessage(id_, SmallMessageType.SET_CREDIT,
                      SetCreditSmallMessage_generate_body(days).value, secret_key)

\* SetCreditSmallMessage.__init__(id_, days, secret_key)
SetCreditSmallMessage(id_, days, secret_key) ==
    IF id_ % 64 = 63 /\ days = [int |-> 1] THEN Raise("PossibleMessageCollisionError")
    ELSE IF ~IsOk(SetCreditSmallMessage_generate_body(days))
    THEN SetCreditSmallMessage_generate_body(days)
    ELSE SmallMessage(id_, SmallMessageType.SET_CREDIT,
                      SetCreditSmallMessage_generate_body(days).value, secret_key)

\* PassthroughSmallMessage.__init__(bits), with the passthrough branch of
\* SmallMessage.__init__
PassthroughSmallMessage(bits) ==
    IF Len(bits) # 26 THEN Raise("ValueError")
    ELSE Ok([cls |-> "SmallMessage",
             id_ |-> 0,
             message_type |-> SmallMessageType.PASSTHROUGH,
             body |-> bits,
             compressed_message_bits |->
                 SubSeq(bits, 1, 6) \o UintBits(SmallMessageType.PASSTHROUGH, 2)
                 \o SubSeq(bits, 7, 26)])

\* CustomCommandSmallMessage.__init__(id_, type_, secret_key); type_ is the
\* value of a CustomCommandSmallMessageType member (253), or a number that is
\* none
CustomCommandSmallMessage(id_, type_, secret_key) ==
    IF type_ # 253 THEN Raise("ValueError")
    ELSE SmallMessage(id_, SmallMessageType.SET_CREDIT, type_, secret_key)

\* MaintenanceSmallMessage.__init__(type_, secret_key); type_ is the value of
\* a MaintenanceSmallMessageType member (0, 1, 2), or a number that is none
MaintenanceSmallMessage(type_, secret_key) ==
    IF type_ \notin 0..2 THEN Raise("ValueError")
    ELSE SmallMessage(0, SmallMessageType.MAINTENANCE_TEST, type_ + 128, secret_key)

\* TestSmallMessage.__init__(type_); type_ is the value of a
\* TestSmallMessageType member (0, 1), or a number that is none
TestSmallMessage(type_) ==
    IF type_ \notin 0..1 THEN Raise("ValueError")
    ELSE SmallMessage(0, SmallMessageType.MAINTENANCE_TEST, type_,
                      <<255, 255, 255, 255, 255, 255, 255, 255,
                        255, 255, 255, 255, 255, 255, 255, 255>>)

ExtendedSmallMessageType == [SET_CREDIT_WIPE_RESTRICTED_FLAG |-> <<0, 2>>]

EXTENDED_SMALL_FIRMWARE_RECEIPT_WINDOW_IDS_ABOVE == 40
EXTENDED_SMALL_FIRMWARE_RECEIPT_WINDOW_IDS_BELOW == 23

\* ExtendedSmallMessage._compute_auth(full_id, type_, body, secret_key)
ExtendedSmallMessage_compute_auth(full_id, type_, body, secret_key) ==
    IF ~FitsU32(full_id) THEN Raise("CreationError")
    ELSE IF ~SipKeyOk(secret_key) THEN Raise("struct.error")
    ELSE Ok(HashTop12(SipHash_2_4(secret_key,
                Uintle32(full_id) \o <<type_[1]>> \o Uintle16(BitsUint(body)))))

\* ExtendedSmallMessage.compute_auth_with_no_collisions(requested_id, type_,
\* body, secret_key); Optional[int] is a sequence of at most one number
compute_auth_with_no_collisions(requested_id, type_, body, secret_key) ==
    Val({ IF ~IsOk(candidate_mac) THEN candidate_mac
          ELSE IF \E i \in min_window_id..max_window_id :
                     /\ (requested_id - i) % Pow2(type_[2]) = 0
                     /\ requested_id # i
                     /\ ExtendedSmallMessage_compute_auth(i, type_, body, secret_key)
                          = candidate_mac
               THEN Ok(<<>>)
               ELSE Ok(<<candidate_mac.value>>) :
            candidate_mac \in { ExtendedSmallMessage_compute_auth(
                                    requested_id, type_, body, secret_key) },
            min_window_id \in { IF requested_id - EXTENDED_SMALL_FIRMWARE_RECEIPT_WINDOW_IDS_BELOW > 0
                                THEN requested_id - EXTENDED_SMALL_FIRMWARE_RECEIPT_WINDOW_IDS_BELOW
                                ELSE 0 },
            max_window_id \in { IF requested_id + EXTENDED_SMALL_FIRMWARE_RECEIPT_WINDOW_IDS_ABOVE < 65535
                                THEN requested_id + EXTENDED_SMALL_FIRMWARE_RECEIPT_WINDOW_IDS_ABOVE
                                ELSE 65535 } })

\* ExtendedSmallMessage.generate_set_credit_wipe_restricted_flag_body(id_, days)
generate_set_credit_wipe_restricted_flag_body(id_, days) ==
    IF ~IsOk(SetCreditSmallMessage_generate_body(days))
    THEN SetCreditSmallMessage_generate_body(days)
    ELSE Ok(UintBits(id_ % 4, 2) \o UintBits(SetCreditSmallMessage_generate_body(days).value, 8))

\* the while loop of ExtendedSmallMessage.__init__ from final_id on: the
\* final_id, auth and body_bits it ends with
RECURSIVE ExtendedSmallMessage_loop(_, _, _, _, _, _)
ExtendedSmallMessage_loop(type_, id_, days, secret_key, final_id, last_body_bits) ==
    IF ~(final_id < id_ + EXTENDED_SMALL_FIRMWARE_RECEIPT_WINDOW_IDS_ABOVE)
    THEN Ok([final_id |-> final_id, auth |-> <<>>, body_bits |-> last_body_bits])
    ELSE Val({ IF ~IsOk(body_bits) THEN body_bits
               ELSE Val({ IF ~IsOk(auth) THEN auth
                          ELSE IF auth.value = <<>>
                          THEN ExtendedSmallMessage_loop(type_, id_, days, secret_key,
                                                         final_id + 1, body_bits.value)
                          ELSE Ok([final_id |-> final_id, auth |-> auth.value,
                                   body_bits |-> body_bits.value]) :
                            auth \in { compute_auth_with_no_collisions(
                                           final_id, type_, body_bits.value, secret_key) } }) :
                 body_bits \in { generate_set_credit_wipe_restricted_flag_body(final_id, days) } })

\* ExtendedSmallMessage.__init__ that reports the id after the one its loop
\* ended with
ExtendedSmallMessage_reports_next(type_, id_, days, secret_key) ==
    IF type_ # ExtendedSmallMessageType.SET_CREDIT_WIPE_RESTRICTED_FLAG THEN Raise("ValueError")
    ELSE Val({ IF ~IsOk(l) THEN l
               ELSE IF l.value.final_id # id_
               THEN [status |-> "ExtendedSmallMessageIdInvalidError",
                     id_ |-> id_, next_valid_id |-> l.value.final_id + 1]
               ELSE Val({ IF ~IsOk(p) THEN p
                          ELSE Ok([cls |-> "ExtendedSmallMessage",
                                   id_ |-> p.value.id_,
                                   message_type |-> p.value.message_type,
                                   body |-> p.value.body,
                                   compressed_message_bits |-> p.value.compressed_message_bits,
                                   final_message_id |-> l.value.final_id]) :
                            p \in { PassthroughSmallMessage(
                                        <<1>> \o UintBits(type_[1], 3) \o l.value.body_bits
                                        \o UintBits(l.value.auth[1], 12)) } }) :
                 l \in { ExtendedSmallMessage_loop(type_, id_, days, secret_key, id_, <<>>) } })

\* ExtendedSmallMessage.__init__(type_, id_=, days=, secret_key=); the error
\* carries the two ids of its text
ExtendedSmallMessage(type_, id_, days, secret_key) ==
    IF type_ # ExtendedSmallMessageType.SET_CREDIT_WIPE_RESTRICTED_FLAG THEN Raise("ValueError")
    ELSE Val({ IF ~IsOk(l) THEN l
               ELSE IF l.value.final_id # id_
               THEN [status |-> "ExtendedSmallMessageIdInvalidError",
                     id_ |-> id_, next_valid_id |-> l.value.final_id]
               ELSE Val({ IF ~IsOk(p) THEN p
                          ELSE Ok([cls |-> "ExtendedSmallMessage",
                                   id_ |-> p.value.id_,
                                   message_type |-> p.value.message_type,
                                   body |-> p.value.body,
                                   compressed_message_bits |-> p.value.compressed_message_bits,
                                   final_message_id |-> l.value.final_id]) :
                            p \in { PassthroughSmallMessage(
                                        <<1>> \o UintBits(type_[1], 3) \o l.value.body_bits
                                        \o UintBits(l.value.auth[1], 12)) } }) :
                 l \in { ExtendedSmallMessage_loop(type_, id_, days, secret_key, id_, <<>>) } })

\* the test of the while loop of ExtendedSmallMessage.__init__ that admits
\* final_id = id_ + 40
ExtendedSmallMessage_while_inclusive(auth, final_id, id_) ==
    auth = <<>> /\ final_id <= id_ + EXTENDED_SMALL_FIRMWARE_RECEIPT_WINDOW_IDS_ABOVE

\* the test of the while loop of ExtendedSmallMessage.__init__
ExtendedSmallMessage_while(auth, final_id, id_) ==
    auth = <<>> /\ final_id < id_ + EXTENDED_SMALL_FIRMWARE_RECEIPT_WINDOW_IDS_ABOVE

\* range(min_window_id, max_window_id + 1) of compute_auth_with_no_collisions
collision_window(requested_id) ==
    Val({ min_window_id..max_window_id :
            min_window_id \in { IF requested_id - EXTENDED_SMALL_FIRMWARE_RECEIPT_WINDOW_IDS_BELOW > 0
                                THEN requested_id - EXTENDED_SMALL_FIRMWARE_RECEIPT_WINDOW_IDS_BELOW
                                ELSE 0 },
            max_window_id \in { IF requested_id + EXTENDED_SMALL_FIRMWARE_RECEIPT_WINDOW_IDS_ABOVE < 65535
                                THEN requested_id + EXTENDED_SMALL_FIRMWARE_RECEIPT_WINDOW_IDS_ABOVE
                                ELSE 65535 } })

(***************************************************************************)
(* nexus_keycode/protocols/nexus_channel_origin_commands.py                *)
(*   an Optional[int] argument is a sequence of at most one number         *)
(***************************************************************************)
OriginCommandType ==
    [GENERIC_CONTROLLER_ACTION |-> 0, UNLOCK_ACCESSORY |-> 1, UNLINK_ACCESSORY |-> 2,
     LINK_ACCESSORY_MODE_3 |-> 9]

GenericControllerActionType ==
    [UNLINK_ALL_ACCESSORIES |-> 0, UNLOCK_ALL_ACCESSORIES |-> 1,
     KEYCODE_SET_CREDIT_WIPE_RESTRICTED_FLAG |-> 6]

\* GenericControllerActionToken._generic_controller_action_builder; the token
\* is a record of its attributes, auth being the hash of the SipHash object
generic_controller_action_builder(type_, type_action_data, controller_command_count, controller_sym_key, bearer) ==
    IF Len(controller_sym_key) # 16 THEN Raise("AssertionError")
    ELSE IF ~FitsU32(controller_command_count) THEN Raise("CreationError")
    ELSE Val({ IF bearer = "SMALLPAD_BITS"
               THEN IF type_ # GenericControllerActionType.KEYCODE_SET_CREDIT_WIPE_RESTRICTED_FLAG
                    THEN Raise("NotImplementedError")
                    ELSE Ok([cls |-> "ChannelOriginCommandToken",
                             type_code |-> OriginCommandType.GENERIC_CONTROLLER_ACTION,
                             body |-> UintBits(OriginCommandType.GENERIC_CONTROLLER_ACTION, 3)
                                      \o <<1, 1>> \o UintBits(type_action_data[1], 8),
                             auth |-> auth,
                             bearer |-> bearer])
               ELSE IF type_action_data # <<>> THEN Raise("AssertionError")
               ELSE Ok([cls |-> "ChannelOriginCommandToken",
                        type_code |-> OriginCommandType.GENERIC_CONTROLLER_ACTION,
                        body |-> FormatD(type_, 2),
                        auth |-> auth,
                        bearer |-> bearer]) :
                 auth \in { SipHash_2_4(controller_sym_key,
                                Uintle32(controller_command_count)
                                \o <<OriginCommandType.GENERIC_CONTROLLER_ACTION>>
                                \o Uintle16(type_)
                                \o Uintle16(IF type_action_data = <<>> THEN 0
                                            ELSE type_action_data[1])) } })

\* GenericControllerActionToken.unlink_all_accessories
unlink_all_accessories(controller_command_count, controller_sym_key) ==
    generic_controller_action_builder(GenericControllerActionType.UNLINK_ALL_ACCESSORIES, <<>>,
                                      controller_command_count, controller_sym_key,
                                      "ASCII_DIGITS")

\* GenericControllerActionToken.unlock_all_accessories
unlock_all_accessories(controller_command_count, controller_sym_key) ==
    generic_controller_action_builder(GenericControllerActionType.UNLOCK_ALL_ACCESSORIES, <<>>,
                                      controller_command_count, controller_sym_key,
                                      "ASCII_DIGITS")

\* GenericControllerActionToken.keycode_set_credit_wipe_restricted_flag; days
\* is a days value of small.py (the string u"UNLOCK" stands for UNLOCK_FLAG)
keycode_set_credit_wipe_restricted_flag(days, controller_command_count, controller_sym_key) ==
    IF ~IsOk(SetCreditSmallMessage_generate_body(days))
    THEN SetCreditSmallMessage_generate_body(days)
    ELSE generic_controller_action_builder(
             GenericControllerActionType.KEYCODE_SET_CREDIT_WIPE_RESTRICTED_FLAG,
             <<SetCreditSmallMessage_generate_body(days).value>>,
             controller_command_count, controller_sym_key, "SMALLPAD_BITS")

\* _specific_accessory_builder taking the body digit from the low 16 bits of
\* the device id alone
specific_accessory_builder_low_word(type_, accessory_asp_id, controller_command_count, controller_sym_key) ==
    IF Len(controller_sym_key) # 16 THEN Raise("AssertionError")
    ELSE IF ~FitsU32(controller_command_count) THEN Raise("CreationError")
    ELSE Ok([cls |-> "ChannelOriginCommandToken",
             type_code |-> type_,
             body |-> FormatD(accessory_asp_id[3] % 10, 1),
             auth |-> SipHash_2_4(controller_sym_key,
                          Uintle32(controller_command_count) \o <<type_>>
                          \o Uintle16(accessory_asp_id[1])
                          \o Uintle16(accessory_asp_id[3]) \o Uintle16(accessory_asp_id[2])),
             bearer |-> "ASCII_DIGITS"])

\* SpecificLinkedAccessoryToken._specific_accessory_builder with
\* SpecificLinkedAccessoryToken.__init__; accessory_asp_id, a number of 48
\* bits, is its three 16-bit words, the highest first
specific_accessory_builder(type_, accessory_asp_id, controller_command_count, controller_sym_key) ==
    IF Len(controller_sym_key) # 16 THEN Raise("AssertionError")
    ELSE IF ~FitsU32(controller_command_count) THEN Raise("CreationError")
    ELSE Ok([cls |-> "ChannelOriginCommandToken",
             type_code |-> type_,
             body |-> FormatD((6 * accessory_asp_id[2] + accessory_asp_id[3]) % 10, 1),
             auth |-> SipHash_2_4(controller_sym_key,
                          Uintle32(controller_command_count) \o <<type_>>
                          \o Uintle16(accessory_asp_id[1])
                          \o Uintle16(accessory_asp_id[3]) \o Uintle16(accessory_asp_id[2])),
             bearer |-> "ASCII_DIGITS"])

\* SpecificLinkedAccessoryToken.unlink_specific_accessory
unlink_specific_accessory(accessory_asp_id, controller_command_count, controller_sym_key) ==
    specific_accessory_builder(OriginCommandType.UNLINK_ACCESSORY, accessory_asp_id,
                               controller_command_count, controller_sym_key)

\* SpecificLinkedAccessoryToken.unlock_specific_accessory
unlock_specific_accessory(accessory_asp_id, controller_command_count, controller_sym_key) ==
    specific_accessory_builder(OriginCommandType.UNLOCK_ACCESSORY, accessory_asp_id,
                               controller_command_count, controller_sym_key)

\* LinkCommandToken.challenge_mode_3
challenge_mode_3(accessory_asp_id, controller_command_count, accessory_command_count, accessory_sym_key, controller_sym_key) ==
    IF Len(accessory_sym_key) # 16 \/ Len(controller_sym_key) # 16 THEN Raise("AssertionError")
    ELSE IF ~FitsU32(accessory_command_count) \/ ~FitsU32(controller_command_count)
    THEN Raise("CreationError")
    ELSE Val({ Ok([cls |-> "ChannelOriginCommandToken",
                   type_code |-> OriginCommandType.LINK_ACCESSORY_MODE_3,
                   body |-> FormatD(trunc_accessory_device_id, 1) \o accessory_auth_digits,
                   auth |-> SipHash_2_4(controller_sym_key,
                                Uintle32(controller_command_count)
                                \o <<OriginCommandType.LINK_ACCESSORY_MODE_3,
                                     trunc_accessory_device_id>>
                                \o Uintle32(DigitsInt(accessory_auth_digits))),
                   bearer |-> "ASCII_DIGITS"]) :
                 trunc_accessory_device_id \in
                     { (6 * accessory_asp_id[2] + accessory_asp_id[3]) % 10 },
                 accessory_auth_digits \in
                     { FormatD(HashLow32Mod1e6(SipHash_2_4(accessory_sym_key,
                                   Uintle32(accessory_command_count))), 6) } })

\* to_digits with four auth digits in place of six
to_digits_four_auth_digits(token) ==
    IF token.bearer = "SMALLPAD_BITS"
    THEN Val({ IF ~IsOk(small_message) THEN small_message
               ELSE SmallMessage_to_keycode(small_message.value, <<1>>, <<Space>>, 3,
                                            DefaultKeyDict, TRUE) :
                 small_message \in { PassthroughSmallMessage(
                                         <<1>> \o token.body
                                         \o UintBits(HashTop12(token.auth), 12)) } })
    ELSE Ok(FormatD(token.type_code, 1) \o token.body
            \o FormatD(HashLow32Mod1e6(token.auth) % 10000, 4))

\* ChannelOriginCommandToken.to_digits()
to_digits(token) ==
    IF token.bearer = "SMALLPAD_BITS"
    THEN Val({ IF ~IsOk(small_message) THEN small_message
               ELSE SmallMessage_to_keycode(small_message.value, <<1>>, <<Space>>, 3,
                                            DefaultKeyDict, TRUE) :
                 small_message \in { PassthroughSmallMessage(
                                         <<1>> \o token.body
                                         \o UintBits(HashTop12(token.auth), 12)) } })
    ELSE Ok(FormatD(token.type_code, 1) \o token.body
            \o FormatD(HashLow32Mod1e6(token.auth), 6))

\* ChannelOriginAction.build(self, **kwargs); kwargs is the record of the
\* keyword arguments, and a constructor called with other names than its
\* parameters raises TypeError
ChannelOriginAction_build(self, kwargs) ==
    CASE self \in { "UNLINK_ALL_ACCESSORIES", "UNLOCK_ALL_ACCESSORIES" }
             /\ DOMAIN kwargs # { "controller_command_count", "controller_sym_key" } ->
             Raise("TypeError")
      [] self \in { "UNLOCK_ACCESSORY", "UNLINK_ACCESSORY" }
             /\ DOMAIN kwargs # { "accessory_asp_id", "controller_command_count",
                                  "controller_sym_key" } ->
             Raise("TypeError")
      [] self = "LINK_ACCESSORY_MODE_3"
             /\ DOMAIN kwargs # { "accessory_asp_id", "controller_command_count",
                                  "accessory_command_count", "accessory_sym_key",
                                  "controller_sym_key" } ->
             Raise("TypeError")
      [] self = "UNLINK_ALL_ACCESSORIES" ->
             unlink_all_accessories(kwargs.controller_command_count, kwargs.controller_sym_key)
      [] self = "UNLOCK_ALL_ACCESSORIES" ->
             unlock_all_accessories(kwargs.controller_command_count, kwargs.controller_sym_key)
      [] self = "UNLOCK_ACCESSORY" ->
             unlock_specific_accessory(kwargs.accessory_asp_id,
                                       kwargs.controller_command_count,
                                       kwargs.controller_sym_key)
      [] self = "UNLINK_ACCESSORY" ->
             unlink_specific_accessory(kwargs.accessory_asp_id,
                                       kwargs.controller_command_count,
                                       kwargs.controller_sym_key)
      [] self = "LINK_ACCESSORY_MODE_3" ->
             challenge_mode_3(kwargs.accessory_asp_id, kwargs.controller_command_count,
                              kwargs.accessory_command_count, kwargs.accessory_sym_key,
                              kwargs.controller_sym_key)

\* the members of ChannelOriginAction that build() is modelled for
ChannelOriginActions ==
    { "UNLINK_ALL_ACCESSORIES", "UNLOCK_ALL_ACCESSORIES", "UNLOCK_ACCESSORY",
      "UNLINK_ACCESSORY", "LINK_ACCESSORY_MODE_3" }

\* FactoryFullMessage.passthrough_channel_origin_command(channel_action, **kwargs)
FactoryFullMessage_passthrough_channel_origin_command(channel_action, kwargs) ==
    IF channel_action \notin ChannelOriginActions THEN Raise("TypeError")
    ELSE Val({ IF ~IsOk(origin_command) THEN origin_command
               ELSE Val({ IF ~IsOk(digits) THEN digits
                          ELSE FactoryFullMessage_passthrough_command(1, digits.value) :
                            digits \in { to_digits(origin_command.value) } }) :
                 origin_command \in { ChannelOriginAction_build(channel_action, kwargs) } })

(***************************************************************************)
(* nexus_keycode/protocols/passthrough_uart.py                             *)
(*   a returned Python int wider than 32 bits is the outcome               *)
(*   [status |-> "ok", type |-> "int", long |-> its 16-bit limbs, the      *)
(*   lowest first]                                                         *)
(***************************************************************************)
\* compute_uart_security_key(secret_key): the sum of the two hash values, an
\* int of up to 65 bits
compute_uart_security_key(secret_key) ==
    Val({ LET s1 == a[1] + b[1]
              s2 == a[2] + b[2] + s1 \div 65536
              s3 == a[3] + b[3] + s2 \div 65536
              s4 == a[4] + b[4] + s3 \div 65536
          IN [status |-> "ok", type |-> "int",
              long |-> <<s1 % 65536, s2 % 65536, s3 % 65536, s4 % 65536, s4 \div 65536>>] :
            a \in { SipHash_2_4(NEXUS_INTEGRITY_CHECK_FIXED_00_KEY,
                                SubSeq(secret_key, 1, Len(secret_key) \div 2)) },
            b \in { SipHash_2_4(NEXUS_INTEGRITY_CHECK_FIXED_00_KEY,
                                SubSeq(secret_key, Len(secret_key) \div 2 + 1,
                                       Len(secret_key))) } })

(***************************************************************************)
(* nexus_keycode/tools/generate_full_keycode.py, generate_small_keycode.py *)
(*   an argument that may be None is a sequence of at most one value       *)
(***************************************************************************)
VALID_NXK_MESSAGE_TYPES == {"SET", "UNLOCK", "ADD"}
VALID_NXC_MESSAGE_TYPES == {"LINK", "UNLINK"}

\* create_full_credit_message that looks at hours before it looks at UNLOCK
create_full_credit_message_hours_first(msg_id, msg_type, secret_key, hours) ==
    IF msg_type \notin VALID_NXK_MESSAGE_TYPES THEN Raise("ValueError")
    ELSE IF hours = <<>> THEN Raise("ValueError")
    ELSE IF msg_type = "UNLOCK" THEN FullMessage_unlock(msg_id, secret_key)
    ELSE IF msg_type = "ADD" THEN FullMessage_add_credit(msg_id, hours[1], secret_key)
    ELSE FullMessage_set_credit(msg_id, hours[1], secret_key)

\* create_full_credit_message(msg_id, msg_type, secret_key, hours=None)
create_full_credit_message(msg_id, msg_type, secret_key, hours) ==
    IF msg_type \notin VALID_NXK_MESSAGE_TYPES THEN Raise("ValueError")
    ELSE IF msg_type = "UNLOCK" THEN FullMessage_unlock(msg_id, secret_key)
    ELSE IF hours = <<>> THEN Raise("ValueError")
    ELSE IF msg_type = "ADD" THEN FullMessage_add_credit(msg_id, hours[1], secret_key)
    ELSE FullMessage_set_credit(msg_id, hours[1], secret_key)

\* create_full_channel_message(msg_type, controller_sym_key,
\* controller_command_count, accessory_sym_key=None,
\* accessory_command_count=None), with
\* FactoryFullMessage.passthrough_channel_origin_command and
\* ChannelOriginAction.build of nexus_channel_origin_commands.py: a LINK call
\* passes no accessory_asp_id to LinkCommandToken.challenge_mode_3
create_full_channel_message(msg_type, controller_sym_key, controller_command_count, accessory_sym_key, accessory_command_count) ==
    IF msg_type \notin VALID_NXC_MESSAGE_TYPES THEN Raise("ValueError")
    ELSE IF msg_type = "UNLINK"
    THEN Val({ IF ~IsOk(origin_command) THEN origin_command
               ELSE FactoryFullMessage_passthrough_command(
                        1, to_digits(origin_command.value).value) :
                 origin_command \in { unlink_all_accessories(controller_command_count,
                                                             controller_sym_key) } })
    ELSE IF accessory_sym_key = <<>> \/ accessory_command_count = <<>> THEN Raise("ValueError")
    ELSE Raise("TypeError")

\* create_small_credit_message(msg_id, msg_type, secret_key, days=None); key
\* is what the name key of the module is bound to when the function runs:
\* <<>> when it is unbound, as after an import of the module
create_small_credit_message(msg_id, msg_type, secret_key, days, key) ==
    IF msg_type = "SET"
    THEN (IF key = <<>> THEN Raise("NameError") ELSE SetCreditSmallMessage(msg_id, days, key[1]))
    ELSE IF msg_type = "ADD"
    THEN (IF key = <<>> THEN Raise("NameError") ELSE AddCreditSmallMessage(msg_id, days, key[1]))
    ELSE IF msg_type # "UNLOCK" THEN Raise("AssertionError")
    ELSE IF key = <<>> THEN Raise("NameError")
    ELSE AddCreditSmallMessage(msg_id, UNLOCK_FLAG, key[1])

(***************************************************************************)
(* The caller's inputs                                                     *)
(***************************************************************************)
\* the largest obscured_digit_count handed to full_obscure
MaxObscuredDigits == 9
\* the largest number of days handed to generate_body
MaxDays == 962
\* the largest number of passthrough digits
MaxPassthroughDigits == 15

\* the keys the callers pass: 16 bytes, 32 bytes (Long) and 15 bytes (Short)
Keys ==
    [AB |-> <<171, 171, 171, 171, 171, 171, 171, 171, 171, 171, 171, 171, 171, 171, 171, 171>>,
     FF |-> <<255, 255, 255, 255, 255, 255, 255, 255, 255, 255, 255, 255, 255, 255, 255, 255>>,
     Controller |-> <<254, 254, 254, 254, 254, 254, 254, 254,
                      162, 162, 162, 162, 162, 162, 162, 162>>,
     Accessory |-> <<250, 250, 250, 250, 250, 250, 250, 250, 1, 1, 1, 1, 1, 1, 1, 1>>,
     Long |-> <<251, 0, 165, 152, 251, 0, 165, 152, 251, 0, 165, 152, 251, 0, 165, 152,
                2, 3, 4, 5, 2, 3, 4, 5, 2, 3, 4, 5, 2, 3, 4, 5>>,
     Short |-> <<171, 171, 171, 171, 171, 171, 171, 171, 171, 171, 171, 171, 171, 171, 171>>]

\* the other arguments the callers pass
Inputs ==
    [mac |-> { <<9, 0, 1, 2, 5, 0>>, <<9, 0, 1, 2, 4, 1>>, <<5, 2, 4, 2, 3, 2>>,
               <<0, 0, 0, 0, 0, 0>>, <<9, 9, 9, 9, 9, 9>> },
     small_bits |-> { UintBits(b, 16) \o UintBits(m, 12) :
                      b \in { 0, 65535, 21845, 39516 }, m \in { 0, 1, 91, 2033, 4095 } },
     full_id |-> { -1, 0, 63, 64, 1223 },
     hours |-> { -5, 0, 1, 993, 99999, 100000 },
     key |-> { Keys.AB, Keys.Long, Keys.Short },
     small_id |-> { -1, 0, 63, 64, 127 },
     days |-> { [int |-> 0], [int |-> 1], [int |-> 2], [int |-> 405], [int |-> 406],
                [int |-> 960], UNLOCK_FLAG, [str |-> "1"] },
     extended_id |-> { -1, 0, 5, 9, 10, 11, 90 },
     extended_days |-> { [int |-> 0], [int |-> 30], [int |-> 961], UNLOCK_FLAG },
     extended_key |-> { Keys.FF, NEXUS_INTEGRITY_CHECK_FIXED_00_KEY, Keys.Long },
     command_count |-> { -1, 0, 15 },
     controller_key |-> { Keys.Controller, Keys.Long, Keys.Short },
     small_rendering |-> { <<<<1>>, DefaultKeyDict>>, <<<<>>, DefaultKeyDict>>,
                           <<<<4>>, [k \in 0..3 |-> k]>>,
                           <<<<Star>>, [k \in 0..2 |-> 97 + k]>>,
                           <<<<>>, [k \in 0..2 |-> 97 + k]>> },
     tool_id |-> { 15, 63 },
     tool_key |-> { Keys.AB, Keys.FF },
     tool_hours |-> { <<>>, <<168>> },
     small_tool_days |-> { <<"SET", [int |-> 4]>>, <<"SET", [int |-> 1]>>,
                           <<"ADD", [int |-> 4]>>, <<"UNLOCK", [obj |-> "None"]>>,
                           <<"UNLOCK", [int |-> 4]>>, <<"INVALID_TYPE", [int |-> 4]>> },
     module_key |-> { <<>>, <<Keys.AB>>, <<Keys.FF>> },
     accessory_key |-> { <<>>, <<Keys.AB>> },
     accessory_count |-> { <<>>, <<3>> },
     window_id |-> { 0, 5, 89, 90, 91, 65495, 65540, 65752 },
     seed_bits |-> { <<>>, <<0, 1, 1, 1>>, <<0, 1, 1, 0>>,
                     <<0, 1, 1, 0, 1, 1, 1, 1, 1, 0, 1, 0>>,
                     <<0, 0, 0, 0, 0, 1, 1, 0, 1, 1, 1, 1, 1, 0, 1, 0>> },
     output_len |-> { 0, 1, 15, 16, 64, 65, 256, 257, 320 },
     accessory_asp_id |-> { <<258, 38019, 29016>>, <<0, 0, 7>>, <<32, 1, 19>>,
                            <<65535, 65535, 65535>> },
     base_key |-> { Keys.AB, Keys.FF, Keys.Short, [i \in 1..16 |-> i - 1],
                    <<1, 1, 1, 1, 1, 1, 1, 1, 1, 1, 1, 1, 1, 1, 67, 81>> }]

\* digit strings of obscured_digit_count + 6 digits
ObscureInputs(n) ==
    { [i \in 1..n |-> (p[1] * i + p[2]) % 10] \o m :
        p \in { <<1, 0>>, <<0, 0>>, <<0, 9>>, <<7, 3>> }, m \in Inputs.mac }

\* n passthrough digits
PassthroughDigits(n) == [i \in 1..n |-> i % 10]

(***************************************************************************)
(* The calls.  call names the operation and its arguments, out is the      *)
(* call's outcome, msg the object a constructor returned.                  *)
(***************************************************************************)
\* the outcome of the constructor (or class method) call c
Construct(c) ==
    CASE c.op = "FullMessage.add_credit" -> FullMessage_add_credit(c.id_, c.hours, c.secret_key)
      [] c.op = "FullMessage.set_credit" -> FullMessage_set_credit(c.id_, c.hours, c.secret_key)
      [] c.op = "FullMessage.unlock" -> FullMessage_unlock(c.id_, c.secret_key)
      [] c.op = "FullMessage.wipe_state" -> FullMessage_wipe_state(c.id_, c.flags, c.secret_key)
      [] c.op = "BaseFullMessage" ->
             BaseFullMessage(c.full_id, c.message_type, c.body, c.secret_key, c.is_factory)
      [] c.op = "FactoryFullMessage.allow_test" -> FactoryFullMessage_allow_test
      [] c.op = "FactoryFullMessage.oqc_test" -> FactoryFullMessage_oqc_test(c.num_min)
      [] c.op = "FactoryFullMessage.display_payg_id" -> FactoryFullMessage_display_payg_id
      [] c.op = "FactoryFullMessage.passthrough_command" ->
             FactoryFullMessage_passthrough_command(c.application_id, c.passthrough_digits)
      [] c.op = "AddCreditSmallMessage" -> AddCreditSmallMessage(c.id_, c.days, c.secret_key)
      [] c.op = "SetCreditSmallMessage" -> SetCreditSmallMessage(c.id_, c.days, c.secret_key)
      [] c.op = "UnlockSmallMessage" -> UnlockSmallMessage(c.id_, c.secret_key)
      [] c.op = "ExtendedSmallMessage" ->
             ExtendedSmallMessage(c.type_, c.id_, c.days, c.secret_key)
      [] c.op = "unlink_all_accessories" ->
             unlink_all_accessories(c.controller_command_count, c.secret_key)
      [] c.op = "unlock_all_accessories" ->
             unlock_all_accessories(c.controller_command_count, c.secret_key)
      [] c.op = "keycode_set_credit_wipe_restricted_flag" ->
             keycode_set_credit_wipe_restricted_flag(c.days, c.controller_command_count,
                                                     c.secret_key)
      [] c.op = "compute_uart_security_key" -> compute_uart_security_key(c.secret_key)
      [] c.op = "CustomCommandSmallMessage" ->
             CustomCommandSmallMessage(c.id_, c.type_, c.secret_key)
      [] c.op = "MaintenanceSmallMessage" -> MaintenanceSmallMessage(c.type_, c.secret_key)
      [] c.op = "compute_auth_with_no_collisions" ->
             compute_auth_with_no_collisions(c.requested_id, c.type_, c.body, c.secret_key)
      [] c.op = "SmallMessage" -> SmallMessage(c.id_, c.message_type, c.body, c.secret_key)
      [] c.op = "create_full_credit_message" ->
             create_full_credit_message(c.msg_id, c.msg_type, c.secret_key, c.hours)
      [] c.op = "create_small_credit_message" ->
             create_small_credit_message(c.msg_id, c.msg_type, c.secret_key, c.days, c.key)

\* the keycode of object m with the default rendering parameters
Keycode(m) ==
    CASE m.cls = "FullMessage" ->
             BaseFullMessage_to_keycode(m, <<Star>>, <<Hash>>, <<Space>>, 3, "None")
      [] m.cls \in {"SmallMessage", "ExtendedSmallMessage"} ->
             SmallMessage_to_keycode(m, <<1>>, <<Space>>, 3, DefaultKeyDict, TRUE)
      [] m.cls = "ChannelOriginCommandToken" -> to_digits(m)

Init ==
    /\ call = [op |-> "none"]
    /\ out = Ok(<<>>)
    /\ msg = NoMsg

\* the caller holds no result and no object
Idle == call.op = "none"

\* the object a constructor's outcome r leaves with the caller
MsgOf(r) == IF IsOk(r) THEN r.value ELSE NoMsg

CallFullObscure ==
    /\ Idle
    /\ \E n \in 1..MaxObscuredDigits : \E d \in ObscureInputs(n) :
        /\ call' = [op |-> "full_obscure", digits |-> d, obscured_digit_count |-> n]
        /\ out' = full_obscure(d, 1, n)
        /\ msg' = NoMsg

CallFullDeobscure ==
    /\ Idle
    /\ \E n \in 1..MaxObscuredDigits : \E d \in ObscureInputs(n) :
        /\ call' = [op |-> "full_deobscure", digits |-> d, obscured_digit_count |-> n]
        /\ out' = full_deobscure(d, n)
        /\ msg' = NoMsg

CallSmallObscure ==
    /\ Idle
    /\ \E b \in Inputs.small_bits :
        /\ call' = [op |-> "SmallMessage.obscure", msg_bits |-> b]
        /\ out' = Ok(SmallMessage_obscure(b))
        /\ msg' = NoMsg

CallAddCreditGenerateBody ==
    /\ Idle
    /\ \E d \in { [int |-> n] : n \in -2..MaxDays } \cup { UNLOCK_FLAG, [str |-> "1"] } :
        /\ call' = [op |-> "AddCreditSmallMessage.generate_body", days |-> d]
        /\ out' = AddCreditSmallMessage_generate_body(d)
        /\ msg' = NoMsg

CallSetCreditGenerateBody ==
    /\ Idle
    /\ \E d \in { [int |-> n] : n \in -2..MaxDays } \cup { UNLOCK_FLAG, [str |-> "1"] } :
        /\ call' = [op |-> "SetCreditSmallMessage.generate_body", days |-> d]
        /\ out' = SetCreditSmallMessage_generate_body(d)
        /\ msg' = NoMsg

CallFullAddCredit ==
    /\ Idle
    /\ \E i \in Inputs.full_id, h \in Inputs.hours, k \in Inputs.key :
        \E r \in { FullMessage_add_credit(i, h, k) } :
        /\ call' = [op |-> "FullMessage.add_credit", id_ |-> i, hours |-> h,
                 secret_key |-> k]
        /\ out' = r
        /\ msg' = MsgOf(r)

CallFullSetCredit ==
    /\ Idle
    /\ \E i \in Inputs.full_id, h \in Inputs.hours, k \in Inputs.key :
        \E r \in { FullMessage_set_credit(i, h, k) } :
        /\ call' = [op |-> "FullMessage.set_credit", id_ |-> i, hours |-> h,
                 secret_key |-> k]
        /\ out' = r
        /\ msg' = MsgOf(r)

CallFullUnlock ==
    /\ Idle
    /\ \E i \in Inputs.full_id, k \in Inputs.key :
        \E r \in { FullMessage_unlock(i, k) } :
        /\ call' = [op |-> "FullMessage.unlock", id_ |-> i, secret_key |-> k]
        /\ out' = r
        /\ msg' = MsgOf(r)

CallFullWipeState ==
    /\ Idle
    /\ \E i \in Inputs.full_id, f \in 0..4, k \in Inputs.key :
        \E r \in { FullMessage_wipe_state(i, f, k) } :
        /\ call' = [op |-> "FullMessage.wipe_state", id_ |-> i, flags |-> f,
                 secret_key |-> k]
        /\ out' = r
        /\ msg' = MsgOf(r)

CallBaseFullMessage ==
    /\ Idle
    /\ \E i \in {0, 1223}, f \in BOOLEAN,
          k \in Inputs.key \cup {NEXUS_INTEGRITY_CHECK_FIXED_00_KEY},
          t \in { <<FullMessageType.ADD_CREDIT, <<0, 0, 9, 9, 3>> >>,
                  <<FullMessageType.FACTORY_ALLOW_TEST, <<>> >>,
                  <<FullMessageType.FACTORY_OQC_TEST, <<0, 0, 0, 6, 0>> >> } :
        \E r \in { BaseFullMessage(i, t[1], t[2], k, f) } :
        /\ call' = [op |-> "BaseFullMessage", full_id |-> i, message_type |-> t[1],
                 body |-> t[2], secret_key |-> k, is_factory |-> f]
        /\ out' = r
        /\ msg' = MsgOf(r)

CallFactoryAllowTest ==
    /\ Idle
    /\ \E r \in { FactoryFullMessage_allow_test } :
        /\ call' = [op |-> "FactoryFullMessage.allow_test"]
        /\ out' = r
        /\ msg' = MsgOf(r)

CallFactoryOqcTest ==
    /\ Idle
    /\ \E n \in {0, 1, 60, 99, 100} :
        \E r \in { FactoryFullMessage_oqc_test(n) } :
        /\ call' = [op |-> "FactoryFullMessage.oqc_test", num_min |-> n]
        /\ out' = r
        /\ msg' = MsgOf(r)

CallFactoryDisplayPaygId ==
    /\ Idle
    /\ \E r \in { FactoryFullMessage_display_payg_id } :
        /\ call' = [op |-> "FactoryFullMessage.display_payg_id"]
        /\ out' = r
        /\ msg' = MsgOf(r)

CallPassthroughCommand ==
    /\ Idle
    /\ \E a \in 0..2, n \in 0..MaxPassthroughDigits :
        \E r \in { FactoryFullMessage_passthrough_command(a, PassthroughDigits(n)) } :
        /\ call' = [op |-> "FactoryFullMessage.passthrough_command", application_id |-> a,
                 passthrough_digits |-> PassthroughDigits(n)]
        /\ out' = r
        /\ msg' = MsgOf(r)

CallAddCreditSmallMessage ==
    /\ Idle
    /\ \E i \in Inputs.small_id, d \in Inputs.days, k \in Inputs.key :
        \E r \in { AddCreditSmallMessage(i, d, k) } :
        /\ call' = [op |-> "AddCreditSmallMessage", id_ |-> i, days |-> d,
                 secret_key |-> k]
        /\ out' = r
        /\ msg' = MsgOf(r)

CallSetCreditSmallMessage ==
    /\ Idle
    /\ \E i \in Inputs.small_id, d \in Inputs.days, k \in Inputs.key :
        \E r \in { SetCreditSmallMessage(i, d, k) } :
        /\ call' = [op |-> "SetCreditSmallMessage", id_ |-> i, days |-> d,
                 secret_key |-> k]
        /\ out' = r
        /\ msg' = MsgOf(r)

CallUnlockSmallMessage ==
    /\ Idle
    /\ \E i \in Inputs.small_id, k \in Inputs.key :
        \E r \in { UnlockSmallMessage(i, k) } :
        /\ call' = [op |-> "UnlockSmallMessage", id_ |-> i, secret_key |-> k]
        /\ out' = r
        /\ msg' = MsgOf(r)

CallExtendedSmallMessage ==
    /\ Idle
    /\ \E i \in Inputs.extended_id, d \in Inputs.extended_days, k \in Inputs.extended_key :
        \E r \in { ExtendedSmallMessage(ExtendedSmallMessageType.SET_CREDIT_WIPE_RESTRICTED_FLAG,
                                      i, d, k) } :
        /\ call' = [op |-> "ExtendedSmallMessage",
                 type_ |-> ExtendedSmallMessageType.SET_CREDIT_WIPE_RESTRICTED_FLAG,
                 id_ |-> i, days |-> d, secret_key |-> k]
        /\ out' = r
        /\ msg' = MsgOf(r)

CallUnlinkAllAccessories ==
    /\ Idle
    /\ \E n \in Inputs.command_count, k \in Inputs.controller_key :
        \E r \in { unlink_all_accessories(n, k) } :
        /\ call' = [op |-> "unlink_all_accessories", controller_command_count |-> n,
                 secret_key |-> k]
        /\ out' = r
        /\ msg' = MsgOf(r)

CallUnlockAllAccessories ==
    /\ Idle
    /\ \E n \in Inputs.command_count, k \in Inputs.controller_key :
        \E r \in { unlock_all_accessories(n, k) } :
        /\ call' = [op |-> "unlock_all_accessories", controller_command_count |-> n,
                 secret_key |-> k]
        /\ out' = r
        /\ msg' = MsgOf(r)

CallKeycodeSetCreditWipeRestrictedFlag ==
    /\ Idle
    /\ \E d \in Inputs.extended_days, n \in Inputs.command_count, k \in Inputs.controller_key :
        \E r \in { keycode_set_credit_wipe_restricted_flag(d, n, k) } :
        /\ call' = [op |-> "keycode_set_credit_wipe_restricted_flag", days |-> d,
                 controller_command_count |-> n, secret_key |-> k]
        /\ out' = r
        /\ msg' = MsgOf(r)

CallSmallMessage ==
    /\ Idle
    /\ \E i \in {-1, 0}, t \in {SmallMessageType.ADD_CREDIT, 7} :
        \E r \in { SmallMessage(i, t, 10, Keys.AB) } :
        /\ call' = [op |-> "SmallMessage", id_ |-> i, message_type |-> t, body |-> 10,
                 secret_key |-> Keys.AB]
        /\ out' = r
        /\ msg' = MsgOf(r)

\* compute_auth_with_no_collisions for the body of the requested id
CallComputeAuthWithNoCollisions ==
    /\ Idle
    /\ \E i \in Inputs.window_id, k \in {Keys.FF, NEXUS_INTEGRITY_CHECK_FIXED_00_KEY} :
        \E b \in { generate_set_credit_wipe_restricted_flag_body(i, [int |-> 30]).value } :
        /\ call' = [op |-> "compute_auth_with_no_collisions", requested_id |-> i,
                 type_ |-> ExtendedSmallMessageType.SET_CREDIT_WIPE_RESTRICTED_FLAG,
                 body |-> b, secret_key |-> k]
        /\ out' = compute_auth_with_no_collisions(
                      i, ExtendedSmallMessageType.SET_CREDIT_WIPE_RESTRICTED_FLAG, b, k)
        /\ msg' = NoMsg

CallCustomCommandSmallMessage ==
    /\ Idle
    /\ \E i \in {0, 100}, t \in {253, 240}, k \in {Keys.AB, Keys.Long} :
        \E r \in { CustomCommandSmallMessage(i, t, k) } :
        /\ call' = [op |-> "CustomCommandSmallMessage", id_ |-> i, type_ |-> t,
                 secret_key |-> k]
        /\ out' = r
        /\ msg' = MsgOf(r)

CallMaintenanceSmallMessage ==
    /\ Idle
    /\ \E t \in 0..3, k \in {Keys.AB, Keys.FF} :
        \E r \in { MaintenanceSmallMessage(t, k) } :
        /\ call' = [op |-> "MaintenanceSmallMessage", type_ |-> t, secret_key |-> k]
        /\ out' = r
        /\ msg' = MsgOf(r)

CallTestSmallMessage ==
    /\ Idle
    /\ \E t \in 0..2 :
        \E r \in { TestSmallMessage(t) } :
        /\ call' = [op |-> "TestSmallMessage", type_ |-> t]
        /\ out' = r
        /\ msg' = MsgOf(r)

CallPassthroughSmallMessage ==
    /\ Idle
    /\ \E n \in 25..27, p \in { <<1, 1>>, <<0, 0>>, <<0, 1>>, <<1, 0>> } :
        \E r \in { PassthroughSmallMessage([i \in 1..n |-> p[(i % 2) + 1]]) } :
        /\ call' = [op |-> "PassthroughSmallMessage",
                 bits |-> [i \in 1..n |-> p[(i % 2) + 1]]]
        /\ out' = r
        /\ msg' = MsgOf(r)

CallPseudorandomBits ==
    /\ Idle
    /\ \E b \in Inputs.seed_bits, n \in Inputs.output_len :
        /\ call' = [op |-> "pseudorandom_bits", seed_bits |-> b, output_len |-> n]
        /\ out' = pseudorandom_bits(b, n)
        /\ msg' = NoMsg

\* unlock_specific_accessory or unlink_specific_accessory
CallSpecificAccessory ==
    /\ Idle
    /\ \E a \in Inputs.accessory_asp_id, n \in Inputs.command_count,
          k \in Inputs.controller_key :
        \/ \E r \in { unlock_specific_accessory(a, n, k) } :
            /\ call' = [op |-> "unlock_specific_accessory", accessory_asp_id |-> a,
                     controller_command_count |-> n, controller_sym_key |-> k]
            /\ out' = r
            /\ msg' = MsgOf(r)
        \/ \E r \in { unlink_specific_accessory(a, n, k) } :
            /\ call' = [op |-> "unlink_specific_accessory", accessory_asp_id |-> a,
                     controller_command_count |-> n, controller_sym_key |-> k]
            /\ out' = r
            /\ msg' = MsgOf(r)

CallChallengeMode3 ==
    /\ Idle
    /\ \E a \in Inputs.accessory_asp_id, n \in Inputs.command_count, an \in { -1, 3, 312 },
          ak \in { Keys.Accessory, Keys.Short }, k \in Inputs.controller_key :
        \E r \in { challenge_mode_3(a, n, an, ak, k) } :
        /\ call' = [op |-> "challenge_mode_3", accessory_asp_id |-> a,
                 controller_command_count |-> n, accessory_command_count |-> an,
                 accessory_sym_key |-> ak, controller_sym_key |-> k]
        /\ out' = r
        /\ msg' = MsgOf(r)

CallFullMessageTypeBuild ==
    /\ Idle
    /\ \E i \in Inputs.full_id, k \in Inputs.key :
        \E t \in { <<"ADD_CREDIT", [id_ |-> i, hours |-> h, secret_key |-> k]>> :
                       h \in Inputs.hours }
              \cup { <<"SET_CREDIT", [id_ |-> i, hours |-> h, secret_key |-> k]>> :
                       h \in Inputs.hours }
              \cup { <<"WIPE_STATE", [id_ |-> i, flags |-> f, secret_key |-> k]>> :
                       f \in 0..4 }
              \cup { <<"FACTORY_ALLOW_TEST", [reserved |-> 0]>> } :
        \E r \in { FullMessageType_build(t[1], t[2]) } :
        /\ call' = [op |-> "FullMessageType.build", self |-> t[1], kwargs |-> t[2]]
        /\ out' = r
        /\ msg' = MsgOf(r)

CallPassthroughChannelOriginCommand ==
    /\ Idle
    /\ \E n \in Inputs.command_count, k \in Inputs.controller_key :
        \E t \in { <<a, [controller_command_count |-> n, controller_sym_key |-> k]>> :
                       a \in { "UNLINK_ALL_ACCESSORIES", "UNLOCK_ALL_ACCESSORIES",
                               "LINK_ACCESSORY_MODE_3", "ADD_CREDIT" } }
              \cup { <<a, [accessory_asp_id |-> i, controller_command_count |-> n,
                           controller_sym_key |-> k]>> :
                       a \in { "UNLOCK_ACCESSORY", "UNLINK_ACCESSORY" },
                       i \in Inputs.accessory_asp_id }
              \cup { <<"LINK_ACCESSORY_MODE_3",
                       [accessory_asp_id |-> i, controller_command_count |-> n,
                        accessory_command_count |-> an, accessory_sym_key |-> Keys.Accessory,
                        controller_sym_key |-> k]>> :
                       i \in Inputs.accessory_asp_id, an \in { 3, 312 } } :
        \E r \in { FactoryFullMessage_passthrough_channel_origin_command(t[1], t[2]) } :
        /\ call' = [op |-> "FactoryFullMessage.passthrough_channel_origin_command",
                 channel_action |-> t[1], kwargs |-> t[2]]
        /\ out' = r
        /\ msg' = MsgOf(r)

CallComputeUartSecurityKey ==
    /\ Idle
    /\ \E k \in Inputs.base_key :
        /\ call' = [op |-> "compute_uart_security_key", secret_key |-> k]
        /\ out' = compute_uart_security_key(k)
        /\ msg' = NoMsg

CallCreateFullCreditMessage ==
    /\ Idle
    /\ \E i \in Inputs.tool_id, t \in VALID_NXK_MESSAGE_TYPES \cup {"INVALID_TYPE"},
          k \in Inputs.tool_key, h \in Inputs.tool_hours :
        \E r \in { create_full_credit_message(i, t, k, h) } :
        /\ call' = [op |-> "create_full_credit_message", msg_id |-> i, msg_type |-> t,
                 secret_key |-> k, hours |-> h]
        /\ out' = r
        /\ msg' = MsgOf(r)

CallCreateFullChannelMessage ==
    /\ Idle
    /\ \E t \in VALID_NXC_MESSAGE_TYPES \cup {"INVALID_TYPE"}, k \in Inputs.controller_key,
          ak \in Inputs.accessory_key, an \in Inputs.accessory_count :
        \E r \in { create_full_channel_message(t, k, 15, ak, an) } :
        /\ call' = [op |-> "create_full_channel_message", msg_type |-> t,
                 controller_sym_key |-> k, controller_command_count |-> 15,
                 accessory_sym_key |-> ak, accessory_command_count |-> an]
        /\ out' = r
        /\ msg' = MsgOf(r)

\* a call of create_small_credit_message in a module whose name key is bound
\* to g, or unbound
CallCreateSmallCreditMessage ==
    /\ Idle
    /\ \E i \in Inputs.tool_id, td \in Inputs.small_tool_days, k \in Inputs.tool_key,
          g \in Inputs.module_key :
        \E r \in { create_small_credit_message(i, td[1], k, td[2], g) } :
        /\ call' = [op |-> "create_small_credit_message", msg_id |-> i, msg_type |-> td[1],
                 secret_key |-> k, days |-> td[2], key |-> g]
        /\ out' = r
        /\ msg' = MsgOf(r)

\* BaseFullMessage.to_keycode(obscured=...) of the message the caller holds
FullToKeycode ==
    /\ msg.cls = "FullMessage"
    /\ call.op # "to_keycode"
    /\ \E o \in {"None", "True", "False"} :
        /\ call' = [op |-> "to_keycode", obscured |-> o]
        /\ out' = BaseFullMessage_to_keycode(msg, <<Star>>, <<Hash>>, <<Space>>, 3, o)
        /\ msg' = msg

\* SmallMessage.to_keycode(prefix=..., key_dict=..., obscured=...) of the message
\* the caller holds
SmallToKeycode ==
    /\ msg.cls \in {"SmallMessage", "ExtendedSmallMessage"}
    /\ call.op # "to_keycode"
    /\ \E r \in Inputs.small_rendering, o \in BOOLEAN :
        /\ call' = [op |-> "to_keycode", prefix |-> r[1], key_dict |-> r[2], obscured |-> o]
        /\ out' = SmallMessage_to_keycode(msg, r[1], <<Space>>, 3, r[2], o)
        /\ msg' = msg

\* ChannelOriginCommandToken.to_digits() of the token the caller holds
TokenToDigits ==
    /\ msg.cls = "ChannelOriginCommandToken"
    /\ call.op # "to_digits"
    /\ call' = [op |-> "to_digits"]
    /\ out' = to_digits(msg)
    /\ msg' = msg

\* the caller drops the result (and the object) of its last call
Return ==
    /\ ~Idle
    /\ call' = [op |-> "none"]
    /\ out' = Ok(<<>>)
    /\ msg' = NoMsg

Next ==
    \/ CallFullObscure
    \/ CallFullDeobscure
    \/ CallSmallObscure
    \/ CallAddCreditGenerateBody
    \/ CallSetCreditGenerateBody
    \/ CallPassthroughCommand
    \/ CallSetCreditSmallMessage
    \/ CallAddCreditSmallMessage
    \/ CallUnlockSmallMessage
    \/ CallFullAddCredit
    \/ CallFullSetCredit
    \/ CallFullUnlock
    \/ CallFullWipeState
    \/ CallBaseFullMessage
    \/ CallFactoryAllowTest
    \/ CallFactoryOqcTest
    \/ CallFactoryDisplayPaygId
    \/ CallExtendedSmallMessage
    \/ CallUnlinkAllAccessories
    \/ CallUnlockAllAccessories
    \/ CallKeycodeSetCreditWipeRestrictedFlag
    \/ CallSmallMessage
    \/ CallComputeAuthWithNoCollisions
    \/ CallCustomCommandSmallMessage
    \/ CallMaintenanceSmallMessage
    \/ CallTestSmallMessage
    \/ CallPassthroughSmallMessage
    \/ CallPseudorandomBits
    \/ CallSpecificAccessory
    \/ CallChallengeMode3
    \/ CallFullMessageTypeBuild
    \/ CallPassthroughChannelOriginCommand
    \/ CallComputeUartSecurityKey
    \/ CallCreateFullCreditMessage
    \/ CallCreateFullChannelMessage
    \/ CallCreateSmallCreditMessage
    \/ FullToKeycode
    \/ SmallToKeycode
    \/ TokenToDigits
    \/ Return

Spec == Init /\ [][Next]_vars

(***************************************************************************)
(* ExtendedSmallMessage.__init__ step by step: one action for each turn of *)
(* its while loop.  Which ids collide depends on the key, so a turn draws  *)
(* both outcomes of compute_auth_with_no_collisions wherever the window    *)
(* holds another id with the same two low bits: every pattern of           *)
(* collisions a key can produce is covered, that of secret_key among them. *)
(***************************************************************************)
ExtendedInitEnter ==
    /\ Idle
    /\ \E t \in { ExtendedSmallMessageType.SET_CREDIT_WIPE_RESTRICTED_FLAG, <<1, 2>> },
          i \in { -1, 0, 5, 23, 65500, 65530, 65540 },
          d \in Inputs.extended_days, k \in { Keys.FF, Keys.Short } :
        /\ call' = [op |-> "ExtendedSmallMessage.__init__",
                 pc |-> IF t = ExtendedSmallMessageType.SET_CREDIT_WIPE_RESTRICTED_FLAG
                        THEN "while" ELSE "done",
                 type_ |-> t, id_ |-> i, days |-> d, secret_key |-> k,
                 final_id |-> i, auth |-> <<>>, body_bits |-> <<>>,
                 attempts |-> 0, scanned |-> 0]
        /\ out' = IF t = ExtendedSmallMessageType.SET_CREDIT_WIPE_RESTRICTED_FLAG
                  THEN Ok(<<>>) ELSE Raise("ValueError")
        /\ msg' = NoMsg

\* one turn of the while loop
ExtendedInitAttempt ==
    /\ call.op = "ExtendedSmallMessage.__init__"
    /\ call.pc = "while"
    /\ ExtendedSmallMessage_while(call.auth, call.final_id, call.id_)
    /\ \E body_bits \in { generate_set_credit_wipe_restricted_flag_body(call.final_id,
                                                                        call.days) } :
        IF ~IsOk(body_bits)
        THEN /\ call' = [call EXCEPT !.pc = "done", !.attempts = @ + 1]
             /\ out' = body_bits
             /\ msg' = NoMsg
        ELSE \E candidate_mac \in { ExtendedSmallMessage_compute_auth(
                                        call.final_id, call.type_, body_bits.value,
                                        call.secret_key) } :
            IF ~IsOk(candidate_mac)
            THEN /\ call' = [call EXCEPT !.pc = "done", !.attempts = @ + 1]
                 /\ out' = candidate_mac
                 /\ msg' = NoMsg
            ELSE \E collides \in { c \in BOOLEAN :
                                     c => \E w \in collision_window(call.final_id) :
                                              /\ (call.final_id - w) % Pow2(call.type_[2]) = 0
                                              /\ call.final_id # w } :
                /\ call' = [call EXCEPT
                              !.attempts = @ + 1,
                              !.scanned = Cardinality(collision_window(call.final_id)),
                              !.body_bits = body_bits.value,
                              !.auth = IF collides THEN <<>> ELSE <<candidate_mac.value>>,
                              !.final_id = IF collides THEN @ + 1 ELSE @]
                /\ out' = out
                /\ msg' = NoMsg

\* the rest of the constructor, once the loop has ended
ExtendedInitFinish ==
    /\ call.op = "ExtendedSmallMessage.__init__"
    /\ call.pc = "while"
    /\ ~ExtendedSmallMessage_while(call.auth, call.final_id, call.id_)
    /\ \E r \in { IF call.final_id # call.id_
                  THEN [status |-> "ExtendedSmallMessageIdInvalidError",
                        id_ |-> call.id_, next_valid_id |-> call.final_id]
                  ELSE Val({ IF ~IsOk(p) THEN p
                             ELSE Ok([cls |-> "ExtendedSmallMessage",
                                      id_ |-> p.value.id_,
                                      message_type |-> p.value.message_type,
                                      body |-> p.value.body,
                                      compressed_message_bits |->
                                          p.value.compressed_message_bits,
                                      final_message_id |-> call.final_id]) :
                               p \in { PassthroughSmallMessage(
                                           <<1>> \o UintBits(call.type_[1], 3)
                                           \o call.body_bits
                                           \o UintBits(call.auth[1], 12)) } }) } :
        /\ call' = [call EXCEPT !.pc = "done"]
        /\ out' = r
        /\ msg' = MsgOf(r)

\* the caller drops the message or the error of the finished constructor
ExtendedInitReturn ==
    /\ call.op = "ExtendedSmallMessage.__init__"
    /\ call.pc = "done"
    /\ call' = [op |-> "none"]
    /\ out' = Ok(<<>>)
    /\ msg' = NoMsg

ExtendedInitNext ==
    \/ ExtendedInitEnter
    \/ ExtendedInitAttempt
    \/ ExtendedInitFinish
    \/ ExtendedInitReturn

\* a constructor that has been entered keeps running: Python runs it to its end
ExtendedInitSpec ==
    Init /\ [][ExtendedInitNext]_vars /\ WF_vars(ExtendedInitAttempt \/ ExtendedInitFinish)


(***************************************************************************)
(* Properties                                                              *)
(***************************************************************************)
\* C1: obscuring is reversible.  For obscured_digit_count n in 1..8 and a
\* string d of n + 6 digits, full_obscure(d) returns and full_deobscure of
\* what it returns is d (and full_obscure of what full_deobscure returns is
\* d); for 28 bits b, SmallMessage.obscure of SmallMessage.obscure(b) is b.
ObscureReversible ==
    /\ (call.op = "full_obscure" /\ call.obscured_digit_count \in 1..8) =>
           /\ IsOk(out)
           /\ full_deobscure(out.value, call.obscured_digit_count) = Ok(call.digits)
    /\ (call.op = "full_deobscure" /\ call.obscured_digit_count \in 1..8) =>
           /\ IsOk(out)
           /\ full_obscure(out.value, 1, call.obscured_digit_count) = Ok(call.digits)
    /\ (call.op = "SmallMessage.obscure" /\ Len(call.msg_bits) = 28) =>
           /\ SmallMessage_obscure(out.value) = call.msg_bits
           /\ SmallMessage_deobscure(call.msg_bits) = out.value

\* full_obscure has changed each of the 8 body digits of a 14-digit string
ObscureReversibleWitness ==
    /\ call.op = "full_obscure"
    /\ call.obscured_digit_count = 8
    /\ IsOk(out)
    /\ \A i \in 1..8 : out.value[i] # call.digits[i]

\* C2: obscuring changes only the part before the MAC.  What full_obscure and
\* full_deobscure return (n in 1..8) has the length of the input, consists of
\* digits 0..9 and ends with the input's last 6 digits; what
\* SmallMessage.obscure returns for 28 bits is 28 bits ending with the
\* input's last 12 bits.
ObscureKeepsMac ==
    /\ (call.op \in {"full_obscure", "full_deobscure"} /\ call.obscured_digit_count \in 1..8) =>
           /\ IsOk(out)
           /\ Len(out.value) = Len(call.digits)
           /\ IsDigits(out.value)
           /\ LastN(out.value, 6) = LastN(call.digits, 6)
    /\ (call.op = "SmallMessage.obscure" /\ Len(call.msg_bits) = 28) =>
           /\ Len(out.value) = 28
           /\ \A i \in 1..28 : out.value[i] \in {0, 1}
           /\ LastN(out.value, 12) = LastN(call.msg_bits, 12)

\* SmallMessage.obscure has changed bits before the MAC, and only those
ObscureKeepsMacWitness ==
    /\ call.op = "SmallMessage.obscure"
    /\ SubSeq(out.value, 1, 16) # SubSeq(call.msg_bits, 1, 16)
    /\ LastN(out.value, 12) = LastN(call.msg_bits, 12)

\* C3: a message that FullMessage.add_credit, set_credit, unlock or wipe_state
\* returns has a header of 3 digits, a body of 5 digits and a MAC of 6 digits,
\* 14 digits in all.
FullActivationHas14Digits ==
    (/\ call.op \in {"FullMessage.add_credit", "FullMessage.set_credit",
                     "FullMessage.unlock", "FullMessage.wipe_state"}
     /\ IsOk(out)) =>
        /\ Len(msg.header) = 3 /\ IsDigits(msg.header)
        /\ Len(msg.body) = 5 /\ IsDigits(msg.body)
        /\ Len(msg.mac) = 6 /\ IsDigits(msg.mac)

\* add_credit has returned a message for 100000 hours, which has 15 digits and
\* no obscured keycode
FullActivationHas14DigitsWitness ==
    /\ call.op = "FullMessage.add_credit"
    /\ call.hours = 100000
    /\ IsOk(out)
    /\ Len(msg.header \o msg.body \o msg.mac) = 15
    /\ BaseFullMessage_to_keycode(msg, <<Star>>, <<Hash>>, <<Space>>, 3, "None")
         = Raise("AssertionError")

\* C4: passthrough_command raises ValueError (and returns no message) when the
\* application id digit and the passthrough digits are 13 digits together;
\* the header and body of a PASSTHROUGH_COMMAND message it returns are never
\* 14 digits.
PassthroughNever14Digits ==
    (call.op = "FactoryFullMessage.passthrough_command" /\ call.application_id \in {0, 1}) =>
        /\ (1 + Len(call.passthrough_digits) = 13) =>
               (out = Raise("ValueError") /\ msg = NoMsg)
        /\ IsOk(out) =>
               /\ msg.message_type = FullMessageType.PASSTHROUGH_COMMAND
               /\ msg.body = <<call.application_id>> \o call.passthrough_digits
               /\ Len(msg.header \o msg.body) # 14

\* passthrough_command has refused 12 passthrough digits
PassthroughNever14DigitsWitness ==
    /\ call.op = "FactoryFullMessage.passthrough_command"
    /\ call.application_id = 1
    /\ Len(call.passthrough_digits) = 12
    /\ out = Raise("ValueError")

\* C5: SetCreditSmallMessage raises PossibleMessageCollisionError exactly when
\* the low 6 bits of id_ are 63 and days is 1, whatever the id and the key
\* (the test comes before the MAC and the message bits), and no message
\* object results.
SetCreditCollisionRejected ==
    call.op = "SetCreditSmallMessage" =>
        /\ (out.status = "PossibleMessageCollisionError")
             <=> (call.id_ % 64 = 63 /\ call.days = [int |-> 1])
        /\ (out.status = "PossibleMessageCollisionError") => msg = NoMsg

\* the collision error has been raised for id 127 with a key that no MAC can
\* be computed with
SetCreditCollisionRejectedWitness ==
    /\ call.op = "SetCreditSmallMessage"
    /\ call.id_ = 127
    /\ call.days = [int |-> 1]
    /\ call.secret_key = Keys.Short
    /\ out = Raise("PossibleMessageCollisionError")
    /\ msg = NoMsg

\* C6: AddCreditSmallMessage.generate_body(days) is days - 1 for an int in
\* 1..180, 180 + floor((days - 181) / 3) for an int in 181..405, 255 for the
\* UNLOCK sentinel and a ValueError for anything else; for an int it returns
\* a value in 0..254.
AddCreditBodyTable ==
    call.op = "AddCreditSmallMessage.generate_body" =>
        /\ \A n \in 1..180 : call.days = [int |-> n] => out = Ok(n - 1)
        /\ \A n \in 181..405 : call.days = [int |-> n] => out = Ok(180 + (n - 181) \div 3)
        /\ call.days = UNLOCK_FLAG => out = Ok(255)
        /\ (call.days # UNLOCK_FLAG /\ \A n \in 1..405 : call.days # [int |-> n])
               => out = Raise("ValueError")
        /\ ("int" \in DOMAIN call.days /\ IsOk(out)) => out.value \in 0..254

\* generate_body has returned the largest increment, for 405 days
AddCreditBodyTableWitness ==
    /\ call.op = "AddCreditSmallMessage.generate_body"
    /\ call.days = [int |-> 405]
    /\ out = Ok(254)

\* C7: SetCreditSmallMessage.generate_body(days) is days - 1 for 1..90,
\* 90 + floor((days - 91) / 2) for 91..180, 135 + floor((days - 181) / 4) for
\* 181..360, 180 + floor((days - 361) / 8) for 361..720,
\* 225 + floor((days - 721) / 16) for 721..960, 254 for 0, 255 for the UNLOCK
\* sentinel and a ValueError for anything else.
SetCreditBodyTable ==
    call.op = "SetCreditSmallMessage.generate_body" =>
        /\ \A n \in 1..90 : call.days = [int |-> n] => out = Ok(n - 1)
        /\ \A n \in 91..180 : call.days = [int |-> n] => out = Ok(90 + (n - 91) \div 2)
        /\ \A n \in 181..360 : call.days = [int |-> n] => out = Ok(135 + (n - 181) \div 4)
        /\ \A n \in 361..720 : call.days = [int |-> n] => out = Ok(180 + (n - 361) \div 8)
        /\ \A n \in 721..960 : call.days = [int |-> n] => out = Ok(225 + (n - 721) \div 16)
        /\ call.days = [int |-> 0] => out = Ok(254)
        /\ call.days = UNLOCK_FLAG => out = Ok(255)
        /\ (call.days # UNLOCK_FLAG /\ \A n \in 0..960 : call.days # [int |-> n])
               => out = Raise("ValueError")

\* generate_body has returned 239 for 960 days
SetCreditBodyTableWitness ==
    /\ call.op = "SetCreditSmallMessage.generate_body"
    /\ call.days = [int |-> 960]
    /\ out = Ok(239)

\* C8: a constructor that is given a key of 16 bytes or more does what it
\* does with the first 16 bytes of the key: it returns an object with the
\* same keycode, or fails in the same way.
LongKeyUsesFirst16 ==
    ("secret_key" \in DOMAIN call /\ Len(call.secret_key) >= 16) =>
        \A r \in { Construct([call EXCEPT !.secret_key = First16(@)]) } :
            IF IsOk(r) THEN IsOk(out) /\ Keycode(msg) = Keycode(r.value)
            ELSE out = r

\* ExtendedSmallMessage has failed with a key of 32 bytes although it returns
\* a message with the first 16 bytes of that key
LongKeyUsesFirst16Witness ==
    /\ call.op = "ExtendedSmallMessage"
    /\ call.secret_key = Keys.Long
    /\ out = Raise("struct.error")
    /\ IsOk(Construct([call EXCEPT !.secret_key = First16(@)]))

\* C9: the MAC of a factory message (is_factory, full_id 0) is the MAC
\* computed with the all-zero key, whatever secret_key the message was built
\* with.
FactoryMacUsesZeroKey ==
    (/\ msg.cls = "FullMessage"
     /\ msg.is_factory
     /\ msg.full_id = 0
     /\ msg.message_type # FullMessageType.PASSTHROUGH_COMMAND) =>
        Ok(msg.mac) = BaseFullMessage_generate_mac(
                          NEXUS_INTEGRITY_CHECK_FIXED_00_KEY, msg.full_id, msg.message_type,
                          IF msg.body = <<>> THEN 0 ELSE DigitsInt(msg.body))

\* BaseFullMessage has built a FACTORY_ALLOW_TEST message with the key
\* 0xAB * 16, and its keycode is not *406 498 3#
FactoryMacUsesZeroKeyWitness ==
    /\ call.op = "BaseFullMessage"
    /\ call.is_factory
    /\ call.message_type = FullMessageType.FACTORY_ALLOW_TEST
    /\ call.secret_key = Keys.AB
    /\ IsOk(out)
    /\ Keycode(msg) # Ok(<<Star, 4, 0, 6, Space, 4, 9, 8, Space, 3, Hash>>)

\* C10: when the requested id of an ExtendedSmallMessage collides and the
\* loop of __init__ reaches an id without collision, the constructor returns
\* a message of that final id: the caller reads the final id from it, its
\* body begins with the final id mod 4 and its MAC is the auth of the final
\* id.
ExtendedCollisionAdvancesId ==
    call.op = "ExtendedSmallMessage" =>
        \A l \in { ExtendedSmallMessage_loop(call.type_, call.id_, call.days,
                                             call.secret_key, call.id_, <<>>) } :
            (IsOk(l) /\ l.value.auth # <<>>) =>
                /\ IsOk(out)
                /\ msg.final_message_id = l.value.final_id
                /\ SubSeq(msg.body, 5, 6) = UintBits(l.value.final_id % 4, 2)
                /\ SubSeq(msg.body, 15, 26) = UintBits(l.value.auth[1], 12)

\* the requested id 10 collides, id 11 does not, and the constructor has
\* raised ExtendedSmallMessageIdInvalidError
ExtendedCollisionAdvancesIdWitness ==
    /\ call.op = "ExtendedSmallMessage"
    /\ call.id_ = 10
    /\ call.days = UNLOCK_FLAG
    /\ call.secret_key = Keys.FF
    /\ out.status = "ExtendedSmallMessageIdInvalidError"
    /\ out.next_valid_id = 11
    /\ msg = NoMsg

\* C11: ExtendedSmallMessage raises ExtendedSmallMessageIdInvalidError only
\* when no id from the requested id to the requested id + 40 (that id
\* included) is free of collisions.
ExtendedErrorOnlyBeyondWindow ==
    (call.op = "ExtendedSmallMessage" /\ out.status = "ExtendedSmallMessageIdInvalidError") =>
        \A f \in call.id_ .. call.id_ + EXTENDED_SMALL_FIRMWARE_RECEIPT_WINDOW_IDS_ABOVE :
            \A b \in { generate_set_credit_wipe_restricted_flag_body(f, call.days) } :
                compute_auth_with_no_collisions(f, call.type_, b.value, call.secret_key)
                    = Ok(<<>>)

\* the constructor has raised the error for id 90 although the id 91, one
\* above, is free of collisions
ExtendedErrorOnlyBeyondWindowWitness ==
    /\ call.op = "ExtendedSmallMessage"
    /\ call.id_ = 90
    /\ call.days = [int |-> 30]
    /\ call.secret_key = NEXUS_INTEGRITY_CHECK_FIXED_00_KEY
    /\ out.status = "ExtendedSmallMessageIdInvalidError"
    /\ out.next_valid_id = 91
    /\ compute_auth_with_no_collisions(
           91, call.type_, generate_set_credit_wipe_restricted_flag_body(91, call.days).value,
           call.secret_key) # Ok(<<>>)

UartKeyIsTwoDigests ==
    (call.op = "compute_uart_security_key" /\ Len(call.secret_key) = 16) =>
        out = Ok(BitsBytesFrom(HashUintle64Bits(SipHash_2_4(NEXUS_INTEGRITY_CHECK_FIXED_00_KEY,
                                                            SubSeq(call.secret_key, 1, 8))), 1)
                 \o BitsBytesFrom(HashUintle64Bits(SipHash_2_4(NEXUS_INTEGRITY_CHECK_FIXED_00_KEY,
                                                               SubSeq(call.secret_key, 9, 16))), 1))

\* compute_uart_security_key has returned an int for the key of
\* test_passthrough_uart
UartKeyIsTwoDigestsWitness ==
    /\ call.op = "compute_uart_security_key"
    /\ call.secret_key = <<1, 1, 1, 1, 1, 1, 1, 1, 1, 1, 1, 1, 1, 1, 67, 81>>
    /\ IsOk(out)
    /\ out.type = "int"
    /\ Len(out.long) = 5

\* C14: to_keycode() of a Full or Small message whose constructor returned,
\* with the default obscured setting, a non-empty prefix and a complete key
\* table, returns a keycode and never raises.
ToKeycodeNeverRaises ==
    (/\ call.op = "to_keycode"
     /\ \/ msg.cls = "FullMessage" /\ call.obscured = "None"
        \/ /\ msg.cls \in {"SmallMessage", "ExtendedSmallMessage"}
           /\ call.obscured
           /\ Len(call.prefix) >= 1
           /\ 0..3 \subseteq DOMAIN call.key_dict)
    => IsOk(out)

\* to_keycode() has raised for the message add_credit returned for 100000
\* hours
ToKeycodeNeverRaisesWitness ==
    /\ call.op = "to_keycode"
    /\ msg.cls = "FullMessage"
    /\ msg.message_type = FullMessageType.ADD_CREDIT
    /\ Len(msg.body) = 6
    /\ call.obscured = "None"
    /\ out = Raise("AssertionError")

\* C15: SmallMessage.to_keycode raises ValueError for an empty prefix and
\* KeyError for a key table that lacks one of 0, 1, 2, 3; otherwise its output
\* without the separators is the prefix followed by exactly 14 characters, the
\* i-th being the key-table value of the i-th pair of the (obscured, if asked)
\* 28 message bits; with the defaults that is 1 and 14 digits in 2..5.
SmallToKeycodeOutput ==
    (call.op = "to_keycode" /\ msg.cls \in {"SmallMessage", "ExtendedSmallMessage"}) =>
        IF Len(call.prefix) = 0 THEN out = Raise("ValueError")
        ELSE IF ~(0..3 \subseteq DOMAIN call.key_dict) THEN out = Raise("KeyError")
        ELSE /\ IsOk(out)
             /\ Len(msg.compressed_message_bits) = 28
             /\ \A bits \in { IF call.obscured
                              THEN SmallMessage_obscure(msg.compressed_message_bits)
                              ELSE msg.compressed_message_bits } :
                 SelectSeq(out.value, LAMBDA c : c # Space) =
                     call.prefix \o [i \in 1..14 |->
                                        call.key_dict[2 * bits[2 * i - 1] + bits[2 * i]]]
             /\ (call.prefix = <<1>> /\ call.key_dict = DefaultKeyDict) =>
                 /\ Len(out.value) = 19
                 /\ out.value[1] = 1
                 /\ \A i \in 2..19 : out.value[i] \in (IF i % 4 = 0 THEN {Space} ELSE 2..5)

\* to_keycode has rendered an obscured Small message with a caller's prefix
\* and key table
SmallToKeycodeOutputWitness ==
    /\ call.op = "to_keycode"
    /\ msg.cls = "SmallMessage"
    /\ call.prefix = <<4>>
    /\ call.key_dict = [k \in 0..3 |-> k]
    /\ call.obscured
    /\ IsOk(out)
    /\ Len(out.value) = 19

\* C16: create_full_credit_message raises ValueError for a msg_type outside
\* ADD, SET, UNLOCK and for ADD or SET with hours None, and UNLOCK succeeds
\* without hours; create_full_channel_message raises ValueError for a msg_type
\* outside LINK, UNLINK and for LINK when the accessory key or the accessory
\* count is None.
FullToolsValidate ==
    /\ call.op = "create_full_credit_message" =>
        /\ call.msg_type \notin {"ADD", "SET", "UNLOCK"} => out = Raise("ValueError")
        /\ (call.msg_type \in {"ADD", "SET"} /\ call.hours = <<>>) => out = Raise("ValueError")
        /\ (call.msg_type = "UNLOCK" /\ call.hours = <<>>) =>
            /\ IsOk(out)
            /\ out.value.message_type = FullMessageType.SET_CREDIT
            /\ out.value.body = <<9, 9, 9, 9, 9>>
    /\ call.op = "create_full_channel_message" =>
        /\ call.msg_type \notin {"LINK", "UNLINK"} => out = Raise("ValueError")
        /\ (/\ call.msg_type = "LINK"
            /\ (call.accessory_sym_key = <<>> \/ call.accessory_command_count = <<>>)) =>
            out = Raise("ValueError")

\* create_full_credit_message has returned an unlock message to a caller that
\* gave no hours
FullToolsValidateWitness ==
    /\ call.op = "create_full_credit_message"
    /\ call.msg_type = "UNLOCK"
    /\ call.hours = <<>>
    /\ IsOk(out)
    /\ msg.body = <<9, 9, 9, 9, 9>>

\* C17: create_small_credit_message raises ValueError for every msg_type
\* outside SET, ADD, UNLOCK, and for UNLOCK it returns an ADD_CREDIT message
\* with body 255 whatever days is.
SmallToolValidatesType ==
    call.op = "create_small_credit_message" =>
        /\ call.msg_type \notin {"SET", "ADD", "UNLOCK"} => out = Raise("ValueError")
        /\ call.msg_type = "UNLOCK" =>
            /\ IsOk(out)
            /\ out.value.message_type = SmallMessageType.ADD_CREDIT
            /\ out.value.body = 255

\* create_small_credit_message has failed its assert for a msg_type it does
\* not know
SmallToolValidatesTypeWitness ==
    /\ call.op = "create_small_credit_message"
    /\ call.msg_type = "INVALID_TYPE"
    /\ out = Raise("AssertionError")

\* C18: create_small_credit_message is a function of its four arguments only:
\* its outcome is the same whatever the module's names are bound to, and a
\* returned message carries the MAC of the secret_key argument.
SmallToolUsesItsArguments ==
    call.op = "create_small_credit_message" =>
        /\ \A g \in Inputs.module_key :
            create_small_credit_message(call.msg_id, call.msg_type, call.secret_key,
                                        call.days, g) = out
        /\ IsOk(out) =>
            LastN(out.value.compressed_message_bits, mac_len) =
                SmallMessage_generate_mac_bits(out.value.id_, out.value.message_type,
                                               out.value.body, First16(call.secret_key)).value

\* create_small_credit_message has returned a message that carries the MAC of
\* the key the module's name key is bound to, not that of its secret_key
\* argument
SmallToolUsesItsArgumentsWitness ==
    /\ call.op = "create_small_credit_message"
    /\ call.msg_type = "ADD"
    /\ call.secret_key = Keys.AB
    /\ call.key = <<Keys.FF>>
    /\ IsOk(out)
    /\ LastN(out.value.compressed_message_bits, mac_len) =
           SmallMessage_generate_mac_bits(out.value.id_, out.value.message_type,
                                          out.value.body, Keys.FF).value
    /\ LastN(out.value.compressed_message_bits, mac_len) #
           SmallMessage_generate_mac_bits(out.value.id_, out.value.message_type,
                                          out.value.body, Keys.AB).value

RenderingOrder ==
    (call.op = "to_keycode" /\ IsOk(out)) =>
        /\ msg.cls = "FullMessage" =>
            /\ SelectSeq(SubSeq(out.value, 2, Len(out.value) - 1), LAMBDA c : c # Space) =
                   (IF call.obscured = "True" \/ (call.obscured # "False" /\ ~msg.is_factory)
                    THEN full_obscure(msg.header \o msg.body \o msg.mac, 1, 8).value
                    ELSE msg.header \o msg.body \o msg.mac)
            /\ out.value[1] = Star
            /\ out.value[Len(out.value)] = Hash
            /\ \A i \in 2..Len(out.value) - 1 : (out.value[i] = Space) <=> ((i - 1) % 4 = 0)
        /\ msg.cls \in {"SmallMessage", "ExtendedSmallMessage"} =>
            /\ LastN(out.value, 7) =
                   [i \in 1..7 |-> IF i = 4 THEN Space
                                   ELSE call.key_dict[
                                       2 * msg.compressed_message_bits[2 * i + 15 - 2 * (i \div 4)]
                                       + msg.compressed_message_bits[2 * i + 16 - 2 * (i \div 4)]]]
            /\ out.value[1] = call.prefix[1]
            /\ \A i \in 2..Len(out.value) : (out.value[i] = Space) <=> ((i - 1) % 4 = 0)

\* C20, amended: the MAC is computed first, then the digits are obscured. A
\* Full message is then split into groups and the prefix and suffix are put
\* around the groups. A Small message has its prefix put before the digits
\* first and is then split into groups, so its prefix is the first character
\* of the first group.
RenderingOrderOfEachProtocol ==
    (call.op = "to_keycode" /\ IsOk(out)) =>
        /\ msg.cls = "FullMessage" =>
            /\ SelectSeq(SubSeq(out.value, 2, Len(out.value) - 1), LAMBDA c : c # Space) =
                   (IF call.obscured = "True" \/ (call.obscured # "False" /\ ~msg.is_factory)
                    THEN full_obscure(msg.header \o msg.body \o msg.mac, 1, 8).value
                    ELSE msg.header \o msg.body \o msg.mac)
            /\ out.value[1] = Star
            /\ out.value[Len(out.value)] = Hash
            /\ \A i \in 2..Len(out.value) - 1 : (out.value[i] = Space) <=> ((i - 1) % 4 = 0)
        /\ msg.cls \in {"SmallMessage", "ExtendedSmallMessage"} =>
            /\ LastN(out.value, 7) =
                   [i \in 1..7 |-> IF i = 4 THEN Space
                                   ELSE call.key_dict[
                                       2 * msg.compressed_message_bits[2 * i + 15 - 2 * (i \div 4)]
                                       + msg.compressed_message_bits[2 * i + 16 - 2 * (i \div 4)]]]
            /\ out.value[1] = call.prefix[1]
            /\ \A i \in 2..Len(out.value) : (out.value[i] = Space) <=> (i % 4 = 0)

\* a Small message has been rendered with its prefix and two digits in the
\* first group
RenderingOrderOfEachProtocolWitness ==
    /\ call.op = "to_keycode"
    /\ msg.cls = "SmallMessage"
    /\ IsOk(out)
    /\ call.obscured
    /\ out.value[1] = 1
    /\ out.value[4] = Space
    /\ out.value[2] # Space /\ out.value[3] # Space

\* C21: compute_auth_with_no_collisions returns None exactly when some id i
\* other than the requested id, with max(0, id - 23) <= i <= id + 40 and
\* id - i divisible by 4, has the same 12-bit auth for the same body and key;
\* otherwise it returns the auth of the requested id.
AuthNoneIffCollisionInWindow ==
    (call.op = "compute_auth_with_no_collisions" /\ IsOk(out)) =>
        IF \E i \in (IF call.requested_id > EXTENDED_SMALL_FIRMWARE_RECEIPT_WINDOW_IDS_BELOW
                     THEN call.requested_id - EXTENDED_SMALL_FIRMWARE_RECEIPT_WINDOW_IDS_BELOW
                     ELSE 0)
                    .. (call.requested_id + EXTENDED_SMALL_FIRMWARE_RECEIPT_WINDOW_IDS_ABOVE) :
              /\ i # call.requested_id
              /\ (call.requested_id - i) % 4 = 0
              /\ ExtendedSmallMessage_compute_auth(i, call.type_, call.body, call.secret_key)
                   = ExtendedSmallMessage_compute_auth(call.requested_id, call.type_,
                                                       call.body, call.secret_key)
        THEN out.value = <<>>
        ELSE out.value = <<ExtendedSmallMessage_compute_auth(
                               call.requested_id, call.type_, call.body,
                               call.secret_key).value>>

\* compute_auth_with_no_collisions has returned an auth for id 65540, whose
\* auth is also that of id 65580
AuthNoneIffCollisionInWindowWitness ==
    /\ call.op = "compute_auth_with_no_collisions"
    /\ call.requested_id = 65540
    /\ call.secret_key = Keys.FF
    /\ IsOk(out)
    /\ out.value # <<>>
    /\ ExtendedSmallMessage_compute_auth(65580, call.type_, call.body, call.secret_key)
         = Ok(out.value[1])

\* C22: full obscuring is involutive: for every 14-digit decimal string d,
\* full_obscure(full_obscure(d)) is d.
FullObscureInvolutive ==
    (call.op = "full_obscure" /\ call.obscured_digit_count = 8) =>
        full_obscure(out.value, 1, 8) = Ok(call.digits)

\* C22, amended: for every 14-digit decimal string d, full_deobscure undoes
\* full_obscure; full_obscure applied twice keeps the six MAC digits and moves
\* each of the first eight digits twice as far as one application does.
FullObscureUndoneByDeobscure ==
    (call.op = "full_obscure" /\ call.obscured_digit_count = 8) =>
        /\ IsOk(out)
        /\ full_deobscure(out.value, 8) = Ok(call.digits)
        /\ \A twice \in { full_obscure(out.value, 1, 8) } :
            /\ IsOk(twice)
            /\ LastN(twice.value, 6) = LastN(call.digits, 6)
            /\ \A i \in 1..8 : twice.value[i] = (2 * out.value[i] - call.digits[i]) % 10

\* full_obscure has returned, for a 14-digit string, digits that a second
\* full_obscure does not turn back into the string
FullObscureUndoneByDeobscureWitness ==
    /\ call.op = "full_obscure"
    /\ call.obscured_digit_count = 8
    /\ IsOk(out)
    /\ full_obscure(out.value, 1, 8) # Ok(call.digits)
    /\ full_deobscure(out.value, 8) = Ok(call.digits)

\* C23: for a Full message of 14 digits that is not a factory message,
\* to_keycode with obscured unset equals to_keycode(obscured=True), and the
\* digits of to_keycode(obscured=False) are the deobscured digits of the
\* default output; for a factory message, to_keycode with obscured unset
\* renders header + body + mac without obscuring.
ObscuredDefaultFollowsFactory ==
    (call.op = "to_keycode" /\ msg.cls = "FullMessage") =>
        /\ (~msg.is_factory /\ Len(msg.header \o msg.body \o msg.mac) = 14) =>
            \A default \in { BaseFullMessage_to_keycode(msg, <<Star>>, <<Hash>>, <<Space>>,
                                                        3, "None") } :
                /\ IsOk(default)
                /\ call.obscured = "True" => out = default
                /\ call.obscured = "False" =>
                    /\ IsOk(out)
                    /\ Ok(SelectSeq(out.value, LAMBDA c : c \in 0..9)) =
                           full_deobscure(SelectSeq(default.value, LAMBDA c : c \in 0..9), 8)
        /\ (msg.is_factory /\ call.obscured = "None") =>
            /\ IsOk(out)
            /\ SelectSeq(out.value, LAMBDA c : c \in 0..9) = msg.header \o msg.body \o msg.mac

\* to_keycode(obscured=False) has rendered an add-credit message whose default
\* keycode has other digits
ObscuredDefaultFollowsFactoryWitness ==
    /\ call.op = "to_keycode"
    /\ msg.cls = "FullMessage"
    /\ ~msg.is_factory
    /\ Len(msg.body) = 5
    /\ call.obscured = "False"
    /\ IsOk(out)
    /\ out # BaseFullMessage_to_keycode(msg, <<Star>>, <<Hash>>, <<Space>>, 3, "None")

\* C24: every constructed Small message of any kind holds exactly 28
\* compressed bits whose bits 6..7 are the message type code; for a message
\* that is no passthrough message bits 0..5 are id_ & 0x3F, bits 8..15 the
\* body and bits 16..27 the MAC; for a passthrough message the 26 payload bits
\* are bits 0..5 and bits 8..27; a passthrough payload of another length
\* raises ValueError.
SmallMessageHas28Bits ==
    /\ msg.cls \in {"SmallMessage", "ExtendedSmallMessage"} =>
        \A bits \in { msg.compressed_message_bits } :
            /\ Len(bits) = 28
            /\ BitsUint(SubSeq(bits, 7, 8)) = msg.message_type
            /\ msg.message_type # SmallMessageType.PASSTHROUGH =>
                /\ BitsUint(SubSeq(bits, 1, 6)) = msg.id_ % 64
                /\ BitsUint(SubSeq(bits, 9, 16)) = msg.body
                /\ call.op \in {"SmallMessage", "AddCreditSmallMessage", "SetCreditSmallMessage",
                                "UnlockSmallMessage", "CustomCommandSmallMessage",
                                "MaintenanceSmallMessage"} =>
                    BitsUint(SubSeq(bits, 17, 28)) =
                        HashTop12(SipHash_2_4(First16(call.secret_key),
                                              Uintle32(msg.id_)
                                              \o <<msg.message_type, msg.body>>))
            /\ msg.message_type = SmallMessageType.PASSTHROUGH =>
                SubSeq(bits, 1, 6) \o SubSeq(bits, 9, 28) = msg.body
    /\ (call.op = "PassthroughSmallMessage" /\ Len(call.bits) # 26) =>
        out = Raise("ValueError")
    /\ (call.op = "PassthroughSmallMessage" /\ Len(call.bits) = 26) =>
        IsOk(out) /\ out.value.body = call.bits

\* a maintenance message has been constructed with message id 0 and the top
\* bit of its body set
SmallMessageHas28BitsWitness ==
    /\ call.op = "MaintenanceSmallMessage"
    /\ IsOk(out)
    /\ msg.message_type = SmallMessageType.MAINTENANCE_TEST
    /\ msg.body = 130
    /\ Len(msg.compressed_message_bits) = 28

\* C25: pseudorandom_bits(seed, n) returns exactly n bits for every n >= 0,
\* however large, and for n <= m it is the first n bits of
\* pseudorandom_bits(seed, m).
PseudorandomBitsAnyLength ==
    call.op = "pseudorandom_bits" =>
        /\ IsOk(out)
        /\ Len(out.value) = call.output_len
        /\ \A n \in Inputs.output_len :
            n <= call.output_len =>
                pseudorandom_bits(call.seed_bits, n) = Ok(SubSeq(out.value, 1, n))

\* pseudorandom_bits has raised for 257 bits, after int_to_bytes(256)
PseudorandomBitsAnyLengthWitness ==
    /\ call.op = "pseudorandom_bits"
    /\ call.output_len = 257
    /\ out = Raise("ValueError")
    /\ pseudorandom_bits(call.seed_bits, 256).status = "ok"

(***************************************************************************)
(* C26: the digits of an ASCII-bearer origin token are its one-digit type  *)
(* code, its body and exactly 6 auth digits: 9 digits for a generic        *)
(* controller action (type 0, two body digits), 8 for a specific-accessory *)
(* unlock or unlink (type 1 or 2, the body the last decimal digit of the   *)
(* 32-bit device id) and 14 for Link Mode 3 (type 9, the body that digit   *)
(* followed by the 6 accessory challenge digits).                          *)
(***************************************************************************)
AsciiTokenDigits ==
    /\ (call.op \in { "unlock_specific_accessory", "unlink_specific_accessory" } /\ IsOk(out))
        => /\ msg.type_code = (IF call.op = "unlock_specific_accessory" THEN 1 ELSE 2)
           /\ msg.body = <<(6 * call.accessory_asp_id[2] + call.accessory_asp_id[3]) % 10>>
    /\ (call.op = "challenge_mode_3" /\ IsOk(out))
        => /\ msg.type_code = 9
           /\ msg.body = <<(6 * call.accessory_asp_id[2] + call.accessory_asp_id[3]) % 10>>
                  \o FormatD(HashLow32Mod1e6(SipHash_2_4(call.accessory_sym_key,
                                 Uintle32(call.accessory_command_count))), 6)
    /\ (call.op = "to_digits" /\ msg.cls = "ChannelOriginCommandToken"
            /\ msg.bearer = "ASCII_DIGITS" /\ IsOk(out))
        => /\ out.value = <<msg.type_code>> \o msg.body
                  \o SubSeq(out.value, Len(out.value) - 5, Len(out.value))
           /\ \A i \in 1..Len(out.value) : out.value[i] \in 0..9
           /\ SubSeq(out.value, Len(out.value) - 5, Len(out.value))
                  = FormatD(HashLow32Mod1e6(msg.auth), 6)
           /\ msg.type_code = 0 => Len(msg.body) = 2 /\ Len(out.value) = 9
           /\ msg.type_code \in { 1, 2 } => Len(msg.body) = 1 /\ Len(out.value) = 8
           /\ msg.type_code = 9 => Len(msg.body) = 7 /\ Len(out.value) = 14

\* the digits of the Link Mode 3 token of device 0x010294837158
AsciiTokenDigitsWitness ==
    /\ call.op = "to_digits"
    /\ msg.cls = "ChannelOriginCommandToken"
    /\ msg.type_code = 9
    /\ out = Ok(<<9, 0, 4, 4, 5, 0, 3, 4, 5, 8, 1, 2, 7, 5>>)

(***************************************************************************)
(* C27: FullMessageType.ADD_CREDIT.build, SET_CREDIT.build and             *)
(* WIPE_STATE.build, called with the constructor's keyword arguments,      *)
(* return what FullMessage.add_credit, set_credit and wipe_state return    *)
(* for those arguments.                                                    *)
(***************************************************************************)
BuildIsTheConstructor ==
    /\ (call.op = "FullMessageType.build" /\ call.self = "ADD_CREDIT")
        => out = FullMessage_add_credit(call.kwargs.id_, call.kwargs.hours,
                                        call.kwargs.secret_key)
    /\ (call.op = "FullMessageType.build" /\ call.self = "SET_CREDIT")
        => out = FullMessage_set_credit(call.kwargs.id_, call.kwargs.hours,
                                        call.kwargs.secret_key)
    /\ (call.op = "FullMessageType.build" /\ call.self = "WIPE_STATE")
        => out = FullMessage_wipe_state(call.kwargs.id_, call.kwargs.flags,
                                        call.kwargs.secret_key)

\* ADD_CREDIT.build raises where FullMessage.add_credit returns a message
BuildIsTheConstructorWitness ==
    /\ call.op = "FullMessageType.build"
    /\ call.self = "ADD_CREDIT"
    /\ out = Raise("AttributeError")
    /\ IsOk(FullMessage_add_credit(call.kwargs.id_, call.kwargs.hours,
                                   call.kwargs.secret_key))

(***************************************************************************)
(* C28: for every integer days in 1..960 SetCreditSmallMessage's           *)
(* generate_body(days) lies in 0..239 and is non-decreasing in days, so    *)
(* the body of a day count is never a custom increment (240..253, with     *)
(* WIPE_RESTRICTED_FLAG = 253), the lock value 254 or the unlock value 255.*)
(***************************************************************************)
SetCreditBodyBelowReserved ==
    (/\ call.op = "SetCreditSmallMessage.generate_body"
     /\ "int" \in DOMAIN call.days
     /\ call.days.int \in 1..960)
        => /\ IsOk(out)
           /\ out.value \in 0..239
           /\ out.value \notin 240..253 \cup { 254, 255 }
           /\ out.value # CustomCommandSmallMessage(0, 253, Keys.AB).value.body
           /\ call.days.int > 1 =>
                  SetCreditSmallMessage_generate_body([int |-> call.days.int - 1]).value
                      <= out.value

\* the largest day count has the largest body, 239
SetCreditBodyBelowReservedWitness ==
    /\ call.op = "SetCreditSmallMessage.generate_body"
    /\ call.days = [int |-> 960]
    /\ out = Ok(239)

ExtendedInitTerminates ==
    /\ [](call.op = "ExtendedSmallMessage.__init__" =>
            /\ call.attempts <= 40
            /\ call.scanned <= 64
            /\ call.final_id - call.id_ \in 0..40
            /\ call.pc = "done" =>
                   \/ IsOk(out) /\ msg.cls = "ExtendedSmallMessage"
                   \/ out.status \in { "ValueError", "CreationError", "struct.error",
                                       "ExtendedSmallMessageIdInvalidError" })
    /\ (call.op = "ExtendedSmallMessage.__init__")
           ~> (call.op = "ExtendedSmallMessage.__init__" /\ call.pc = "done")

\* 40 colliding ids in a row: the loop ends after its 40th attempt, over a
\* window of 64 ids, and the constructor raises
ExtendedInitTerminatesWitness ==
    /\ call.op = "ExtendedSmallMessage.__init__"
    /\ call.pc = "done"
    /\ call.id_ = 23
    /\ call.attempts = 40
    /\ call.scanned = 64
    /\ out = [status |-> "ExtendedSmallMessageIdInvalidError", id_ |-> 23, next_valid_id |-> 63]

====
